---- MODULE Spec2Model ----
(***************************************************************************)
(* QueueBTS_ : bounded thread-safe fine-grained (round) queue,             *)
(* Queues/QueueBTS/src/queue_bts.hpp, with the threads of test_qb.cpp.     *)
(*                                                                         *)
(* Every access to shared memory (a mutex, a condition variable, the       *)
(* atomic _size, a cursor, a slot) is one step of the calling thread;      *)
(* thread-local computation is folded into the step that precedes it.      *)
(***************************************************************************)
EXTENDS Integers, Sequences, FiniteSets, TLC

\* ------------------------------------------------------------- bounds
Capacity == 2        \* the constructor's argument 'cap'
MaxVal   == 3        \* values the callers push in one run: 1..MaxVal
MaxList  == 2        \* longest list handed to push_list
MaxCount == 2        \* largest count handed to pop_list
TestSize == 3        \* test_size of the bulk run
MaxValSPSC == 5      \* values pushed in the one-producer/one-consumer run
TsMaxVal == 3        \* values free callers push into the linked-list queue
TsCount  == 3        \* count of test_qts.cpp: the values 0..TsCount-1
PqMaxVal == 3        \* elements of the priority queue: 0..PqMaxVal
PqMaxLen == 4        \* longest initializer list, most push calls of one run

\* std::atomic<size_t>: the largest value of the counter.  It stands for
\* 2^64 - 1; the model's integers are 32 bits wide, so the wrap point is the
\* largest integer TLC holds.  0 - 1 wraps to it, it + 1 wraps to 0.
SizeMax == 2147483647

Threads == {1, 2, 3, 4}
NoThread == 0
Writers == {1, 2}    \* the threads launch_writers starts
Readers == {3, 4}    \* the threads launch_readers starts

PushOps == {"try_push", "wait_to_push", "push_list"}
PopOps  == {"try_pop", "wait_and_pop", "pop_list"}
AllOps  == PushOps \cup PopOps \cup {"size"}

VARIABLES
  cont,      \* _cont: the storage buffer, slots 0..Capacity-1
  size,      \* _size
  head,      \* _head, as an index into _cont
  tail,      \* _tail, as an index into _cont
  mx,        \* _mx_head, _mx_tail: the owner of each mutex
  cv,        \* _cv_empty, _cv_full: the threads blocked in wait()
  pc,        \* each thread's position
  op,        \* the public operation each thread is inside
  value,     \* the by-value parameter of try_push / wait_to_push
  valueRef,  \* the caller's variable a direct try_pop / wait_and_pop writes
  ws,        \* the occupancy a check or predicate read last
  rs,        \* _pop_protected_head: rs
  ns,        \* _pop_protected_head: ns
  work,      \* push_list / pop_list: work
  idx,       \* push_list / pop_list: i
  ret,       \* what the thread's last call returned: "true", "false", "work"
             \* (pop_list's vector), "ws" (size()'s number, left in ws)
  got,       \* the values each caller has collected from its pops
  prog,      \* the operations each thread's program may still call
  nextv,     \* the next fresh value a caller pushes
  maxv,      \* the last value the callers of this run push
  pushed,    \* history: values in the order of their slot writes
  popped     \* history: values in the order of their slot reads

\* the single-threaded tests of test_qb.cpp (bq_initial_tests, bq_initial_t1)
\* on a queue of their own
VARIABLES
  sq,        \* the instance 'bq' of the test, every data member in one record
  sscript,   \* the calls the test makes, in order
  sstep,     \* how many of them it has made
  sres       \* what each call returned, with the dump logged after it

btsVars == <<cont, size, head, tail, mx, cv, pc, op, value, valueRef, ws, rs, ns,
             work, idx, ret, got, prog, nextv, maxv, pushed, popped>>
seqVars == <<sq, sscript, sstep, sres>>

\* QueueTSFG_ (queue_tsfg.hpp), the linked-list queue, with the threads of
\* test_qts.cpp
VARIABLES
  tnodes,    \* the sNode_ objects allocated so far: _data (<<>> when null,
             \* <<v>> otherwise) and _next (a node number, NoNode when null)
  thead,     \* _head, as a node number
  ttail,     \* _tail, as a node number
  tmx,       \* _mx_head, _mx_tail: the owner of each mutex
  tpos,      \* each thread's position
  top,       \* the public operation each thread is inside
  tval,      \* push: value
  tnew,      \* push: new_dummy_node
  ttl,       \* _check_for_data: what _get_tail() returned
  tcur,      \* try_pop: curr_head
  tret,      \* what the thread's last call returned: "true" (push), "null"
             \* or "data" (try_pop)
  tdata,     \* the value behind the pointer try_pop returned last
  tgot,      \* the values each caller has taken out of the pointers returned
             \* to it (extract_from_coll: cont)
  trole,     \* what each thread runs
  ti,        \* place_in_coll / extract_from_coll: i
  tnextv,    \* the next fresh value a free caller pushes
  tpushed,   \* history: values in the order of their writes into the dummy
  tpopped,   \* history: the _data of the nodes in the order they left
             \* the head
  tcv        \* _cv_empty: the threads blocked inside wait()

tsVars == <<tnodes, thead, ttail, tmx, tpos, top, tval, tnew, ttl, tcur, tret,
            tdata, tgot, trole, ti, tnextv, tpushed, tpopped, tcv>>

\* PQueue_ (priority_queue.hpp) and its single caller
VARIABLES
  pq,        \* the PQueue_ object: _cont (position 0 of the vector is entry 1
             \* of the sequence), the vector's capacity, _isOK
  pcomp,     \* Compare: "less" or "greater"
  pin,       \* history: the values the queue was given and took
  pout,      \* history: the values pop has handed out
  plast      \* the caller's last call and what came back

pqVars == <<pq, pcomp, pin, pout, plast>>

vars == <<btsVars, seqVars, tsVars, pqVars>>

\* what no operation on the linked-list queue touches
nonTsVars == <<btsVars, seqVars, pqVars>>

\* what no operation on the shared bounded queue touches
fixedVars == <<maxv, seqVars, tsVars, pqVars>>

queueVars == <<cont, size, head, tail>>
localVars == <<value, valueRef, ws, rs, ns, work, idx, ret, got>>
histVars  == <<pushed, popped>>

\* ------------------------------------------------------------- helpers
\* T{} for the element type of the tests (int, size_t)
DefaultT == 0

\* mutant: _check_for_capa guards the insertion with the removal lock
CheckForCapaMutex_Head == "head"

\* which mutex each locking helper takes
CheckForCapaMutex == "tail"
WaitForCapaMutex  == "tail"
CheckForDataMutex == "head"
WaitForDataMutex  == "head"
GetTailMutex      == "tail"
SizeMutex         == "tail"

\* mutant: the handle is moved on without the test for end()
HandleAdvance_NoWrap(h) == h + 1

\* _handle_advance, on the index of the handle
HandleAdvance(h) == IF h + 1 = Capacity THEN 0 ELSE h + 1

SizeInc(x) == IF x = SizeMax THEN 0 ELSE x + 1
SizeDec(x) == IF x = 0 THEN SizeMax ELSE x - 1

\* mutant: the vacancy test admits a full queue
HasCapa_Inclusive(s) == s <= Capacity
HasCapa(s) == s < Capacity
\* mutant: the data test admits an empty queue
HasData_Inclusive(s) == s >= 0
HasData(s) == s > 0

Free(m)   == mx[m] = NoThread
Lock(t, m)   == [mx EXCEPT ![m] = t]
Unlock(t, m) == [mx EXCEPT ![m] = NoThread]

\* the position a thread woken out of wait() on condition variable c resumes at
RelockPc(c) == IF c = "empty" THEN "wd_relock" ELSE "wc_relock"

EmptyQueue == [i \in 0..(Capacity - 1) |-> DefaultT]

InitCommon ==
  /\ cont = EmptyQueue
  /\ size = 0
  /\ head = 0
  /\ tail = 0
  /\ mx = [m \in {"head", "tail"} |-> NoThread]
  /\ cv = [c \in {"empty", "full"} |-> {}]
  /\ pc = [t \in Threads |-> "idle"]
  /\ op = [t \in Threads |-> "none"]
  /\ value = [t \in Threads |-> DefaultT]
  /\ valueRef = [t \in Threads |-> DefaultT]
  /\ ws = [t \in Threads |-> 0]
  /\ rs = [t \in Threads |-> 0]
  /\ ns = [t \in Threads |-> 0]
  /\ work = [t \in Threads |-> <<>>]
  /\ idx = [t \in Threads |-> 0]
  /\ ret = [t \in Threads |-> "none"]
  /\ got = [t \in Threads |-> <<>>]
  /\ nextv = 1
  /\ pushed = <<>>
  /\ popped = <<>>

\* ------------------------------------------------------------- calls
\* a thread outside any call starts one of the operations its program allows;
\* pushed values are fresh: nextv, nextv+1, ...

CallTryPush(t) ==
  /\ pc[t] = "idle" /\ "try_push" \in prog[t] /\ nextv <= maxv
  /\ op' = [op EXCEPT ![t] = "try_push"]
  /\ value' = [value EXCEPT ![t] = nextv]
  /\ nextv' = nextv + 1
  /\ ret' = [ret EXCEPT ![t] = "none"]
  /\ pc' = [pc EXCEPT ![t] = "cc_lock"]
  /\ UNCHANGED <<queueVars, mx, cv, valueRef, ws, rs, ns, work, idx, got, prog,
                 fixedVars, histVars>>

CallWaitToPush(t) ==
  /\ pc[t] = "idle" /\ "wait_to_push" \in prog[t] /\ nextv <= maxv
  /\ op' = [op EXCEPT ![t] = "wait_to_push"]
  /\ value' = [value EXCEPT ![t] = nextv]
  /\ nextv' = nextv + 1
  /\ ret' = [ret EXCEPT ![t] = "none"]
  /\ pc' = [pc EXCEPT ![t] = "wc_lock"]
  /\ UNCHANGED <<queueVars, mx, cv, valueRef, ws, rs, ns, work, idx, got, prog,
                 fixedVars, histVars>>

\* push_list(inil): work = move(inil); the loop's first wait_to_push(work[i++])
StartPushList(t, inil) ==
  /\ op' = [op EXCEPT ![t] = "push_list"]
  /\ work' = [work EXCEPT ![t] = inil]
  /\ idx' = [idx EXCEPT ![t] = 1]
  /\ value' = [value EXCEPT ![t] = inil[1]]
  /\ ret' = [ret EXCEPT ![t] = "none"]
  /\ pc' = [pc EXCEPT ![t] = "wc_lock"]

CallPushList(t) ==
  /\ pc[t] = "idle" /\ "push_list" \in prog[t]
  /\ \E k \in 1..MaxList :
       /\ nextv + k - 1 <= maxv
       /\ StartPushList(t, [j \in 1..k |-> nextv + j - 1])
       /\ nextv' = nextv + k
  /\ UNCHANGED <<queueVars, mx, cv, valueRef, ws, rs, ns, got, prog, fixedVars,
                 histVars>>

CallTryPop(t) ==
  /\ pc[t] = "idle" /\ "try_pop" \in prog[t]
  /\ op' = [op EXCEPT ![t] = "try_pop"]
  /\ ret' = [ret EXCEPT ![t] = "none"]
  /\ pc' = [pc EXCEPT ![t] = "cd_lock"]
  /\ UNCHANGED <<queueVars, mx, cv, value, valueRef, ws, rs, ns, work, idx, got,
                 prog, nextv, fixedVars, histVars>>

CallWaitAndPop(t) ==
  /\ pc[t] = "idle" /\ "wait_and_pop" \in prog[t]
  /\ op' = [op EXCEPT ![t] = "wait_and_pop"]
  /\ ret' = [ret EXCEPT ![t] = "none"]
  /\ pc' = [pc EXCEPT ![t] = "wd_lock"]
  /\ UNCHANGED <<queueVars, mx, cv, value, valueRef, ws, rs, ns, work, idx, got,
                 prog, nextv, fixedVars, histVars>>

\* pop_list(count): work.resize(count, T{}); the loop's first
\* wait_and_pop(work[i++]); with count = 0 the loop is skipped and the empty
\* work is returned
StartPopList(t, count) ==
  /\ IF count = 0
       THEN /\ ret' = [ret EXCEPT ![t] = "work"]
            /\ UNCHANGED <<pc, op, work, idx>>
       ELSE /\ op' = [op EXCEPT ![t] = "pop_list"]
            /\ work' = [work EXCEPT ![t] = [j \in 1..count |-> DefaultT]]
            /\ idx' = [idx EXCEPT ![t] = 1]
            /\ ret' = [ret EXCEPT ![t] = "none"]
            /\ pc' = [pc EXCEPT ![t] = "wd_lock"]

CallPopList(t) ==
  /\ pc[t] = "idle" /\ "pop_list" \in prog[t]
  /\ \E count \in 0..MaxCount : StartPopList(t, count)
  /\ UNCHANGED <<queueVars, mx, cv, value, valueRef, ws, rs, ns, got, prog,
                 nextv, fixedVars, histVars>>

CallSize(t) ==
  /\ pc[t] = "idle" /\ "size" \in prog[t]
  /\ op' = [op EXCEPT ![t] = "size"]
  /\ ret' = [ret EXCEPT ![t] = "none"]
  /\ pc' = [pc EXCEPT ![t] = "sz_lock"]
  /\ UNCHANGED <<queueVars, mx, cv, value, valueRef, ws, rs, ns, work, idx, got,
                 prog, nextv, fixedVars, histVars>>

\* ------------------------------------------------------------- size()
SizeLock(t) ==
  /\ pc[t] = "sz_lock" /\ Free(SizeMutex)
  /\ mx' = Lock(t, SizeMutex)
  /\ pc' = [pc EXCEPT ![t] = "sz_read"]
  /\ UNCHANGED <<queueVars, cv, op, localVars, prog, nextv, fixedVars, histVars>>

SizeRead(t) ==
  /\ pc[t] = "sz_read"
  /\ ws' = [ws EXCEPT ![t] = size]
  /\ pc' = [pc EXCEPT ![t] = "sz_unlock"]
  /\ UNCHANGED <<queueVars, mx, cv, op, value, valueRef, rs, ns, work, idx, ret,
                 got, prog, nextv, fixedVars, histVars>>

SizeUnlock(t) ==
  /\ pc[t] = "sz_unlock"
  /\ mx' = Unlock(t, SizeMutex)
  /\ ret' = [ret EXCEPT ![t] = "ws"]
  /\ op' = [op EXCEPT ![t] = "none"]
  /\ pc' = [pc EXCEPT ![t] = "idle"]
  /\ UNCHANGED <<queueVars, cv, value, valueRef, ws, rs, ns, work, idx, got,
                 prog, nextv, fixedVars, histVars>>

\* ------------------------------------------------------------- push side
\* _check_for_capa: UniqueLock_t lu{_mx_tail}
CheckForCapaLock(t) ==
  /\ pc[t] = "cc_lock" /\ Free(CheckForCapaMutex)
  /\ mx' = Lock(t, CheckForCapaMutex)
  /\ pc' = [pc EXCEPT ![t] = "cc_read"]
  /\ UNCHANGED <<queueVars, cv, op, localVars, prog, nextv, fixedVars, histVars>>

\* mutant: try_push takes the lock of _check_for_capa whatever _size is
CheckForCapaRead_NoTest(t) ==
  /\ pc[t] = "cc_read"
  /\ ws' = [ws EXCEPT ![t] = size]
  /\ pc' = [pc EXCEPT ![t] = "push_write"]
  /\ UNCHANGED <<queueVars, mx, cv, op, value, valueRef, rs, ns, work, idx, ret,
                 got, prog, nextv, fixedVars, histVars>>

\* _check_for_capa: _size < _capacity ? lock : nothing
CheckForCapaRead(t) ==
  /\ pc[t] = "cc_read"
  /\ ws' = [ws EXCEPT ![t] = size]
  /\ pc' = [pc EXCEPT ![t] = IF HasCapa(size) THEN "push_write" ELSE "cc_unlock"]
  /\ UNCHANGED <<queueVars, mx, cv, op, value, valueRef, rs, ns, work, idx, ret,
                 got, prog, nextv, fixedVars, histVars>>

\* mutant: a try_push that finds the queue full sleeps on _cv_full
CheckForCapaFail_Wait(t) ==
  /\ pc[t] = "cc_unlock"
  /\ mx' = Unlock(t, CheckForCapaMutex)
  /\ cv' = [cv EXCEPT !["full"] = @ \cup {t}]
  /\ pc' = [pc EXCEPT ![t] = "wc_sleep"]
  /\ UNCHANGED <<queueVars, op, localVars, prog, nextv, fixedVars, histVars>>

\* try_push: if (!result) return false, the lock released by lu's destructor
CheckForCapaFail(t) ==
  /\ pc[t] = "cc_unlock"
  /\ mx' = Unlock(t, CheckForCapaMutex)
  /\ ret' = [ret EXCEPT ![t] = "false"]
  /\ op' = [op EXCEPT ![t] = "none"]
  /\ value' = [value EXCEPT ![t] = DefaultT]
  /\ ws' = [ws EXCEPT ![t] = 0]
  /\ pc' = [pc EXCEPT ![t] = "idle"]
  /\ UNCHANGED <<queueVars, cv, valueRef, rs, ns, work, idx, got, prog, nextv,
                 fixedVars, histVars>>

\* _wait_for_capa: UniqueLock_t lu{_mx_tail}
WaitForCapaLock(t) ==
  /\ pc[t] = "wc_lock" /\ Free(WaitForCapaMutex)
  /\ mx' = Lock(t, WaitForCapaMutex)
  /\ pc' = [pc EXCEPT ![t] = "wc_pred"]
  /\ UNCHANGED <<queueVars, cv, op, localVars, prog, nextv, fixedVars, histVars>>

\* mutant: wait_to_push goes on without testing _size < _capacity
WaitForCapaPred_Skip(t) ==
  /\ pc[t] = "wc_pred"
  /\ ws' = [ws EXCEPT ![t] = size]
  /\ pc' = [pc EXCEPT ![t] = "push_write"]
  /\ UNCHANGED <<queueVars, mx, cv, op, value, valueRef, rs, ns, work, idx, ret,
                 got, prog, nextv, fixedVars, histVars>>

\* _cv_full.wait(lu, pred): the predicate _size < _capacity
WaitForCapaPred(t) ==
  /\ pc[t] = "wc_pred"
  /\ ws' = [ws EXCEPT ![t] = size]
  /\ pc' = [pc EXCEPT ![t] = IF HasCapa(size) THEN "push_write" ELSE "wc_wait"]
  /\ UNCHANGED <<queueVars, mx, cv, op, value, valueRef, rs, ns, work, idx, ret,
                 got, prog, nextv, fixedVars, histVars>>

\* mutant: a wait_to_push that finds the queue full gives up and returns
WaitForCapaWait_Return(t) ==
  /\ pc[t] = "wc_wait"
  /\ mx' = Unlock(t, WaitForCapaMutex)
  /\ pc' = [pc EXCEPT ![t] = "idle"]
  /\ op' = [op EXCEPT ![t] = "none"]
  /\ ret' = [ret EXCEPT ![t] = "false"]
  /\ UNCHANGED <<queueVars, cv, value, valueRef, ws, rs, ns, work, idx, got,
                 prog, nextv, fixedVars, histVars>>

\* _cv_full.wait(lu): release _mx_tail and block, atomically
WaitForCapaWait(t) ==
  /\ pc[t] = "wc_wait"
  /\ mx' = Unlock(t, WaitForCapaMutex)
  /\ cv' = [cv EXCEPT !["full"] = @ \cup {t}]
  /\ pc' = [pc EXCEPT ![t] = "wc_sleep"]
  /\ UNCHANGED <<queueVars, op, localVars, prog, nextv, fixedVars, histVars>>

\* _cv_full.wait(lu): woken, take _mx_tail again, then the predicate again
WaitForCapaRelock(t) ==
  /\ pc[t] = "wc_relock" /\ Free(WaitForCapaMutex)
  /\ mx' = Lock(t, WaitForCapaMutex)
  /\ pc' = [pc EXCEPT ![t] = "wc_pred"]
  /\ UNCHANGED <<queueVars, cv, op, localVars, prog, nextv, fixedVars, histVars>>

\* *_tail = std::move(value)
PushWrite(t) ==
  /\ pc[t] = "push_write"
  /\ cont' = [cont EXCEPT ![tail] = value[t]]
  /\ pushed' = Append(pushed, value[t])
  /\ pc' = [pc EXCEPT ![t] = "push_adv"]
  /\ UNCHANGED <<size, head, tail, mx, cv, op, localVars, prog, nextv, fixedVars,
                 popped>>

\* mutant: the insertion cursor is left where it was
PushAdvance_Stay(t) ==
  /\ pc[t] = "push_adv"
  /\ pc' = [pc EXCEPT ![t] = "push_inc"]
  /\ UNCHANGED <<cont, size, head, tail, mx, cv, op, localVars, prog, nextv,
                 fixedVars, histVars>>

\* _push_protected_tail: _handle_advance(_tail)
PushAdvance(t) ==
  /\ pc[t] = "push_adv"
  /\ tail' = HandleAdvance(tail)
  /\ pc' = [pc EXCEPT ![t] = "push_inc"]
  /\ UNCHANGED <<cont, size, head, mx, cv, op, localVars, prog, nextv, fixedVars,
                 histVars>>

\* mutant: _push_protected_tail moves the cursor and leaves _size
PushIncSize_Skip(t) ==
  /\ pc[t] = "push_inc"
  /\ size' = size
  /\ pc' = [pc EXCEPT ![t] = "push_unlock"]
  /\ UNCHANGED <<cont, head, tail, mx, cv, op, localVars, prog, nextv, fixedVars,
                 histVars>>

\* _push_protected_tail: ++_size
PushIncSize(t) ==
  /\ pc[t] = "push_inc"
  /\ size' = SizeInc(size)
  /\ pc' = [pc EXCEPT ![t] = "push_unlock"]
  /\ UNCHANGED <<cont, head, tail, mx, cv, op, localVars, prog, nextv, fixedVars,
                 histVars>>

\* mutant: the signal is given inside the lock block
PushUnlock_Keep(t) ==
  /\ pc[t] = "push_unlock"
  /\ pc' = [pc EXCEPT ![t] = "push_notify"]
  /\ UNCHANGED <<queueVars, mx, cv, op, localVars, prog, nextv, fixedVars,
                 histVars>>

\* the end of the lock block of try_push / wait_to_push
PushUnlock(t) ==
  /\ pc[t] = "push_unlock"
  /\ mx' = Unlock(t, IF op[t] = "try_push" THEN CheckForCapaMutex
                                            ELSE WaitForCapaMutex)
  /\ pc' = [pc EXCEPT ![t] = "push_notify"]
  /\ UNCHANGED <<queueVars, cv, op, localVars, prog, nextv, fixedVars, histVars>>

\* notify_one on condition variable c by thread t, which goes on at tpc: one
\* of the blocked threads, if any, leaves wait()'s block
NotifyOne(c, t, tpc) ==
  IF cv[c] = {}
    THEN /\ cv' = cv
         /\ pc' = [pc EXCEPT ![t] = tpc]
    ELSE \E w \in cv[c] :
           /\ cv' = [cv EXCEPT ![c] = @ \ {w}]
           /\ pc' = [pc EXCEPT ![t] = tpc, ![w] = RelockPc(c)]

\* mutant: the loop of push_list ends after its first element
MorePush_Never(t) == FALSE

\* whether push_list's loop has another element to push after this one
MorePush(t) == op[t] = "push_list" /\ idx[t] < Len(work[t])

\* mutant: push_list hands its first element to every wait_to_push
PushNotify_Repeat(t) ==
  /\ pc[t] = "push_notify"
  /\ NotifyOne("empty", t, IF MorePush(t) THEN "wc_lock" ELSE "idle")
  /\ ws' = [ws EXCEPT ![t] = 0]
  /\ IF MorePush(t)
       THEN /\ idx' = [idx EXCEPT ![t] = @ + 1]
            /\ value' = [value EXCEPT ![t] = work[t][1]]
            /\ UNCHANGED <<op, work, ret>>
       ELSE /\ op' = [op EXCEPT ![t] = "none"]
            /\ ret' = [ret EXCEPT ![t] = "true"]
            /\ value' = [value EXCEPT ![t] = DefaultT]
            /\ work' = [work EXCEPT ![t] = <<>>]
            /\ idx' = [idx EXCEPT ![t] = 0]
  /\ UNCHANGED <<queueVars, mx, valueRef, rs, ns, got, prog, nextv, fixedVars,
                 histVars>>

\* _cv_empty.notify_one(); return true; inside push_list the loop goes on
\* with the next element or push_list returns true
PushNotify(t) ==
  /\ pc[t] = "push_notify"
  /\ NotifyOne("empty", t, IF MorePush(t) THEN "wc_lock" ELSE "idle")
  /\ ws' = [ws EXCEPT ![t] = 0]
  /\ IF MorePush(t)
       THEN /\ idx' = [idx EXCEPT ![t] = @ + 1]
            /\ value' = [value EXCEPT ![t] = work[t][idx[t] + 1]]
            /\ UNCHANGED <<op, work, ret>>
       ELSE /\ op' = [op EXCEPT ![t] = "none"]
            /\ ret' = [ret EXCEPT ![t] = "true"]
            /\ value' = [value EXCEPT ![t] = DefaultT]
            /\ work' = [work EXCEPT ![t] = <<>>]
            /\ idx' = [idx EXCEPT ![t] = 0]
  /\ UNCHANGED <<queueVars, mx, valueRef, rs, ns, got, prog, nextv, fixedVars,
                 histVars>>

\* ------------------------------------------------------------- pop side
\* _check_for_data: UniqueLock_t lu{_mx_head}
CheckForDataLock(t) ==
  /\ pc[t] = "cd_lock" /\ Free(CheckForDataMutex)
  /\ mx' = Lock(t, CheckForDataMutex)
  /\ pc' = [pc EXCEPT ![t] = "gt_lock"]
  /\ UNCHANGED <<queueVars, cv, op, localVars, prog, nextv, fixedVars, histVars>>

\* _wait_for_data: UniqueLock_t lu{_mx_head}
WaitForDataLock(t) ==
  /\ pc[t] = "wd_lock" /\ Free(WaitForDataMutex)
  /\ mx' = Lock(t, WaitForDataMutex)
  /\ pc' = [pc EXCEPT ![t] = "gt_lock"]
  /\ UNCHANGED <<queueVars, cv, op, localVars, prog, nextv, fixedVars, histVars>>

\* _get_tail: Lock_guard lu{_mx_tail}
GetTailLock(t) ==
  /\ pc[t] = "gt_lock" /\ Free(GetTailMutex)
  /\ mx' = Lock(t, GetTailMutex)
  /\ pc' = [pc EXCEPT ![t] = "gt_read"]
  /\ UNCHANGED <<queueVars, cv, op, localVars, prog, nextv, fixedVars, histVars>>

\* _get_tail: return {_size, _tail}; the callers use the size only
GetTailRead(t) ==
  /\ pc[t] = "gt_read"
  /\ ws' = [ws EXCEPT ![t] = size]
  /\ pc' = [pc EXCEPT ![t] = "gt_unlock"]
  /\ UNCHANGED <<queueVars, mx, cv, op, value, valueRef, rs, ns, work, idx, ret,
                 got, prog, nextv, fixedVars, histVars>>

\* _get_tail: the guard's destructor; back in the caller, ws > 0 decides:
\* _check_for_data hands out the lock or nothing, wait()'s predicate is true
\* or false
GetTailUnlock(t) ==
  /\ pc[t] = "gt_unlock"
  /\ mx' = Unlock(t, GetTailMutex)
  /\ pc' = [pc EXCEPT ![t] = IF HasData(ws[t]) THEN "pop_read"
                             ELSE IF op[t] = "try_pop" THEN "cd_unlock"
                             ELSE "wd_wait"]
  /\ UNCHANGED <<queueVars, cv, op, localVars, prog, nextv, fixedVars, histVars>>

\* mutant: a failing try_pop resets the caller's variable to T{}
CheckForDataFail_Clobber(t) ==
  /\ pc[t] = "cd_unlock"
  /\ mx' = Unlock(t, CheckForDataMutex)
  /\ ret' = [ret EXCEPT ![t] = "false"]
  /\ op' = [op EXCEPT ![t] = "none"]
  /\ ws' = [ws EXCEPT ![t] = 0]
  /\ valueRef' = [valueRef EXCEPT ![t] = DefaultT]
  /\ pc' = [pc EXCEPT ![t] = "idle"]
  /\ UNCHANGED <<queueVars, cv, value, rs, ns, work, idx, got, prog, nextv,
                 fixedVars, histVars>>

\* try_pop: if (!result) return false, _mx_head released by lu's destructor
CheckForDataFail(t) ==
  /\ pc[t] = "cd_unlock"
  /\ mx' = Unlock(t, CheckForDataMutex)
  /\ ret' = [ret EXCEPT ![t] = "false"]
  /\ op' = [op EXCEPT ![t] = "none"]
  /\ ws' = [ws EXCEPT ![t] = 0]
  /\ pc' = [pc EXCEPT ![t] = "idle"]
  /\ UNCHANGED <<queueVars, cv, value, valueRef, rs, ns, work, idx, got, prog,
                 nextv, fixedVars, histVars>>

\* _cv_empty.wait(lu): release _mx_head and block, atomically
WaitForDataWait(t) ==
  /\ pc[t] = "wd_wait"
  /\ mx' = Unlock(t, WaitForDataMutex)
  /\ cv' = [cv EXCEPT !["empty"] = @ \cup {t}]
  /\ pc' = [pc EXCEPT ![t] = "wd_sleep"]
  /\ UNCHANGED <<queueVars, op, localVars, prog, nextv, fixedVars, histVars>>

\* mutant: a woken consumer takes _mx_head and pops without evaluating the
\* predicate again
WaitForDataRelock_NoRecheck(t) ==
  /\ pc[t] = "wd_relock" /\ Free(WaitForDataMutex)
  /\ mx' = Lock(t, WaitForDataMutex)
  /\ pc' = [pc EXCEPT ![t] = "pop_read"]
  /\ UNCHANGED <<queueVars, cv, op, localVars, prog, nextv, fixedVars, histVars>>

\* _cv_empty.wait(lu): woken, take _mx_head again, then the predicate again
WaitForDataRelock(t) ==
  /\ pc[t] = "wd_relock" /\ Free(WaitForDataMutex)
  /\ mx' = Lock(t, WaitForDataMutex)
  /\ pc' = [pc EXCEPT ![t] = "gt_lock"]
  /\ UNCHANGED <<queueVars, cv, op, localVars, prog, nextv, fixedVars, histVars>>

\* mutant: the slot after _head is moved out (the dump's starting index)
PopRead_Next(t) ==
  /\ pc[t] = "pop_read"
  /\ IF op[t] = "pop_list"
       THEN /\ work' = [work EXCEPT ![t][idx[t]] = cont[HandleAdvance(head)]]
            /\ UNCHANGED valueRef
       ELSE /\ valueRef' = [valueRef EXCEPT ![t] = cont[HandleAdvance(head)]]
            /\ UNCHANGED work
  /\ popped' = Append(popped, cont[HandleAdvance(head)])
  /\ rs' = [rs EXCEPT ![t] = ws[t]]
  /\ ns' = [ns EXCEPT ![t] = SizeDec(ws[t])]
  /\ pc' = [pc EXCEPT ![t] = "pop_adv"]
  /\ UNCHANGED <<queueVars, mx, cv, op, value, ws, idx, ret, got, prog, nextv,
                 fixedVars, pushed>>

\* value = std::move(*_head), into the caller's variable or, inside pop_list,
\* into work[i]; then _pop_protected_head(result->second): ns = rs - 1
PopRead(t) ==
  /\ pc[t] = "pop_read"
  /\ IF op[t] = "pop_list"
       THEN /\ work' = [work EXCEPT ![t][idx[t]] = cont[head]]
            /\ UNCHANGED valueRef
       ELSE /\ valueRef' = [valueRef EXCEPT ![t] = cont[head]]
            /\ UNCHANGED work
  /\ popped' = Append(popped, cont[head])
  /\ rs' = [rs EXCEPT ![t] = ws[t]]
  /\ ns' = [ns EXCEPT ![t] = SizeDec(ws[t])]
  /\ pc' = [pc EXCEPT ![t] = "pop_adv"]
  /\ UNCHANGED <<queueVars, mx, cv, op, value, ws, idx, ret, got, prog, nextv,
                 fixedVars, pushed>>

\* mutant: the removal cursor is left where it was
PopAdvance_Stay(t) ==
  /\ pc[t] = "pop_adv"
  /\ head' = head
  /\ pc' = [pc EXCEPT ![t] = "pop_cas"]
  /\ UNCHANGED <<cont, size, tail, mx, cv, op, localVars, prog, nextv, fixedVars,
                 histVars>>

\* _pop_protected_head: _handle_advance(_head)
PopAdvance(t) ==
  /\ pc[t] = "pop_adv"
  /\ head' = HandleAdvance(head)
  /\ pc' = [pc EXCEPT ![t] = "pop_cas"]
  /\ UNCHANGED <<cont, size, tail, mx, cv, op, localVars, prog, nextv, fixedVars,
                 histVars>>

\* mutant: a plain store of ns in place of the compare-exchange
PopCasSuccess_Store(t) ==
  /\ pc[t] = "pop_cas"
  /\ size' = ns[t]
  /\ pc' = [pc EXCEPT ![t] = "pop_unlock"]
  /\ UNCHANGED <<cont, head, tail, mx, cv, op, localVars, prog, nextv, fixedVars,
                 histVars>>

\* _size.compare_exchange_strong(rs, ns) succeeds: _size was rs and becomes ns
PopCasSuccess(t) ==
  /\ pc[t] = "pop_cas"
  /\ size = rs[t]
  /\ size' = ns[t]
  /\ pc' = [pc EXCEPT ![t] = "pop_unlock"]
  /\ UNCHANGED <<cont, head, tail, mx, cv, op, localVars, prog, nextv, fixedVars,
                 histVars>>

\* mutant: the retry loop reloads rs and keeps the first ns
PopCasRetry_KeepNs(t) ==
  /\ pc[t] = "pop_cas"
  /\ size # rs[t]
  /\ rs' = [rs EXCEPT ![t] = size]
  /\ ns' = ns
  /\ UNCHANGED <<queueVars, mx, cv, pc, op, value, valueRef, ws, work, idx, ret,
                 got, prog, nextv, fixedVars, histVars>>

\* compare_exchange_strong fails: rs is loaded with _size; the loop body
\* ns = rs - 1; then the exchange again
PopCasRetry(t) ==
  /\ pc[t] = "pop_cas"
  /\ size # rs[t]
  /\ rs' = [rs EXCEPT ![t] = size]
  /\ ns' = [ns EXCEPT ![t] = SizeDec(size)]
  /\ UNCHANGED <<queueVars, mx, cv, pc, op, value, valueRef, ws, work, idx, ret,
                 got, prog, nextv, fixedVars, histVars>>

\* the end of the lock block of try_pop / wait_and_pop
PopUnlock(t) ==
  /\ pc[t] = "pop_unlock"
  /\ mx' = Unlock(t, IF op[t] = "try_pop" THEN CheckForDataMutex
                                           ELSE WaitForDataMutex)
  /\ pc' = [pc EXCEPT ![t] = "pop_notify"]
  /\ UNCHANGED <<queueVars, cv, op, localVars, prog, nextv, fixedVars, histVars>>

\* whether pop_list's loop has another element to pop after this one
\* mutant: pop_list leaves its loop after the first wait_and_pop
MorePop_Never(t) == FALSE

MorePop(t) == op[t] = "pop_list" /\ idx[t] < Len(work[t])

\* _cv_full.notify_one(); return true.  Inside pop_list the loop goes on with
\* wait_and_pop(work[i++]) or pop_list returns work; the caller keeps what it
\* was given (reader_task's result, or the variable of a direct pop)
PopNotify(t) ==
  /\ pc[t] = "pop_notify"
  /\ NotifyOne("full", t, IF MorePop(t) THEN "wd_lock" ELSE "idle")
  /\ ws' = [ws EXCEPT ![t] = 0]
  /\ rs' = [rs EXCEPT ![t] = 0]
  /\ ns' = [ns EXCEPT ![t] = 0]
  /\ IF MorePop(t)
       THEN /\ idx' = [idx EXCEPT ![t] = @ + 1]
            /\ UNCHANGED <<op, work, ret, got>>
       ELSE /\ op' = [op EXCEPT ![t] = "none"]
            /\ ret' = [ret EXCEPT ![t] = IF op[t] = "pop_list" THEN "work"
                                         ELSE "true"]
            /\ got' = [got EXCEPT ![t] = IF op[t] = "pop_list"
                                           THEN @ \o work[t]
                                           ELSE Append(@, valueRef[t])]
            /\ work' = [work EXCEPT ![t] = <<>>]
            /\ idx' = [idx EXCEPT ![t] = 0]
  /\ UNCHANGED <<queueVars, mx, value, valueRef, prog, nextv, fixedVars, histVars>>

\* ------------------------------------------------------------- wakeups
\* condition_variable::wait may return without a notification
SpuriousWake(t) ==
  /\ \E c \in {"empty", "full"} :
       /\ t \in cv[c]
       /\ cv' = [cv EXCEPT ![c] = @ \ {t}]
       /\ pc' = [pc EXCEPT ![t] = RelockPc(c)]
  /\ UNCHANGED <<queueVars, mx, op, localVars, prog, nextv, fixedVars, histVars>>

\* ------------------------------------------------------------- test_qb.cpp
\* prepare_test_input(l, r): the values of [l, r).  The model numbers the
\* values from 1, so that none equals T{}: the list is l+1, ..., r
PrepareTestInput(l, r) == [j \in 1..(r - l) |-> l + j]

\* the position of thread t among the threads of set S, from 0
IndexIn(t, S) == Cardinality({u \in S : u < t})

\* launch_writers / launch_readers: the share of thread number i of num; the
\* last thread takes the remainder
ShareLeft(i, num, total) == i * (total \div num)
ShareSize(i, num, total) ==
  (total \div num) + (IF i = num - 1 THEN total % num ELSE 0)

\* launch_writers: the buffer of writer t
WriterInput(t) ==
  LET i   == IndexIn(t, Writers)
      num == Cardinality(Writers)
      l   == ShareLeft(i, num, TestSize)
  IN  PrepareTestInput(l, l + ShareSize(i, num, TestSize))

\* launch_readers: the count of reader t
ReaderCount(t) ==
  ShareSize(IndexIn(t, Readers), Cardinality(Readers), TestSize)

\* writer_task: bq.push_list(std::move(buffer)), once
CallWriterTask(t) ==
  /\ pc[t] = "idle" /\ "writer_task" \in prog[t]
  /\ StartPushList(t, WriterInput(t))
  /\ prog' = [prog EXCEPT ![t] = {}]
  /\ UNCHANGED <<queueVars, mx, cv, valueRef, ws, rs, ns, got, nextv, fixedVars,
                 histVars>>

\* reader_task: result = bq.pop_list(count), once
CallReaderTask(t) ==
  /\ pc[t] = "idle" /\ "reader_task" \in prog[t]
  /\ StartPopList(t, ReaderCount(t))
  /\ prog' = [prog EXCEPT ![t] = {}]
  /\ UNCHANGED <<queueVars, mx, cv, value, valueRef, ws, rs, ns, got, nextv,
                 fixedVars, histVars>>

\* ------------------------------------------------------------- try-based bulk
\* The variant of queue_bts.hpp whose push_list retries try_push and whose
\* pop_list retries try_pop, yielding on failure.  Its _check_for_capa,
\* _check_for_data, _get_tail, _push_protected_tail and _pop_protected_head
\* are those of the wait-based variant; its try_push calls notify_all and its
\* try_pop signals nothing.

\* push_list(inil): work = move(inil); the loop's first try_push(work[i])
StartPushListTry(t, inil) ==
  /\ op' = [op EXCEPT ![t] = "push_list_try"]
  /\ work' = [work EXCEPT ![t] = inil]
  /\ idx' = [idx EXCEPT ![t] = 1]
  /\ value' = [value EXCEPT ![t] = inil[1]]
  /\ ret' = [ret EXCEPT ![t] = "none"]
  /\ pc' = [pc EXCEPT ![t] = "cc_lock"]

\* writer_task on the try-based variant: bq.push_list(std::move(buffer))
CallWriterTaskTry(t) ==
  /\ pc[t] = "idle" /\ "writer_task" \in prog[t]
  /\ StartPushListTry(t, WriterInput(t))
  /\ prog' = [prog EXCEPT ![t] = {}]
  /\ UNCHANGED <<queueVars, mx, cv, valueRef, ws, rs, ns, got, nextv, fixedVars,
                 histVars>>

\* mutant: an element whose try_push failed is given up
PushListTryYield_Skip(t) ==
  /\ pc[t] = "cc_unlock" /\ op[t] = "push_list_try"
  /\ mx' = Unlock(t, CheckForCapaMutex)
  /\ ws' = [ws EXCEPT ![t] = 0]
  /\ IF idx[t] < Len(work[t])
       THEN /\ idx' = [idx EXCEPT ![t] = @ + 1]
            /\ value' = [value EXCEPT ![t] = work[t][idx[t] + 1]]
            /\ pc' = [pc EXCEPT ![t] = "cc_lock"]
            /\ UNCHANGED <<op, work, ret>>
       ELSE /\ op' = [op EXCEPT ![t] = "none"]
            /\ ret' = [ret EXCEPT ![t] = "true"]
            /\ value' = [value EXCEPT ![t] = DefaultT]
            /\ work' = [work EXCEPT ![t] = <<>>]
            /\ idx' = [idx EXCEPT ![t] = 0]
            /\ pc' = [pc EXCEPT ![t] = "idle"]
  /\ UNCHANGED <<queueVars, cv, valueRef, rs, ns, got, prog, nextv, fixedVars,
                 histVars>>

\* try_push returns false, its lock released; push_list: yield(),
\* ++count_yields, and try_push(work[i]) again with the same i
PushListTryYield(t) ==
  /\ pc[t] = "cc_unlock" /\ op[t] = "push_list_try"
  /\ mx' = Unlock(t, CheckForCapaMutex)
  /\ ws' = [ws EXCEPT ![t] = 0]
  /\ pc' = [pc EXCEPT ![t] = "cc_lock"]
  /\ UNCHANGED <<queueVars, cv, op, value, valueRef, rs, ns, work, idx, ret,
                 got, prog, nextv, fixedVars, histVars>>

\* try_push: _cv_empty.notify_all(); return true; push_list: value =
\* work[i++], then the next try_push or return true
PushListTryNotifyAll(t) ==
  /\ pc[t] = "push_notify" /\ op[t] = "push_list_try"
  /\ cv' = [cv EXCEPT !["empty"] = {}]
  /\ ws' = [ws EXCEPT ![t] = 0]
  /\ IF idx[t] < Len(work[t])
       THEN /\ idx' = [idx EXCEPT ![t] = @ + 1]
            /\ value' = [value EXCEPT ![t] = work[t][idx[t] + 1]]
            /\ pc' = [u \in Threads |->
                        IF u = t THEN "cc_lock"
                        ELSE IF u \in cv["empty"] THEN RelockPc("empty")
                        ELSE pc[u]]
            /\ UNCHANGED <<op, work, ret>>
       ELSE /\ op' = [op EXCEPT ![t] = "none"]
            /\ ret' = [ret EXCEPT ![t] = "true"]
            /\ value' = [value EXCEPT ![t] = DefaultT]
            /\ work' = [work EXCEPT ![t] = <<>>]
            /\ idx' = [idx EXCEPT ![t] = 0]
            /\ pc' = [u \in Threads |->
                        IF u = t THEN "idle"
                        ELSE IF u \in cv["empty"] THEN RelockPc("empty")
                        ELSE pc[u]]
  /\ UNCHANGED <<queueVars, mx, valueRef, rs, ns, got, prog, nextv, fixedVars,
                 histVars>>

\* pop_list(count): work.resize(count, T{}); the loop's first try_pop(value);
\* with count = 0 the loop is skipped and the empty work is returned
StartPopListTry(t, count) ==
  /\ IF count = 0
       THEN /\ ret' = [ret EXCEPT ![t] = "work"]
            /\ UNCHANGED <<pc, op, work, idx>>
       ELSE /\ op' = [op EXCEPT ![t] = "pop_list_try"]
            /\ work' = [work EXCEPT ![t] = [j \in 1..count |-> DefaultT]]
            /\ idx' = [idx EXCEPT ![t] = 1]
            /\ ret' = [ret EXCEPT ![t] = "none"]
            /\ pc' = [pc EXCEPT ![t] = "cd_lock"]

\* reader_task on the try-based variant: result = bq.pop_list(count)
CallReaderTaskTry(t) ==
  /\ pc[t] = "idle" /\ "reader_task" \in prog[t]
  /\ StartPopListTry(t, ReaderCount(t))
  /\ prog' = [prog EXCEPT ![t] = {}]
  /\ UNCHANGED <<queueVars, mx, cv, value, valueRef, ws, rs, ns, got, nextv,
                 fixedVars, histVars>>

\* _get_tail's guard released; back in _check_for_data, ws > 0 decides
PopListTryGetTailUnlock(t) ==
  /\ pc[t] = "gt_unlock" /\ op[t] = "pop_list_try"
  /\ mx' = Unlock(t, GetTailMutex)
  /\ pc' = [pc EXCEPT ![t] = IF HasData(ws[t]) THEN "pop_read" ELSE "cd_unlock"]
  /\ UNCHANGED <<queueVars, cv, op, localVars, prog, nextv, fixedVars, histVars>>

\* try_pop returns false, _mx_head released; pop_list: yield(),
\* ++count_yields, and try_pop(value) again with the same i
PopListTryYield(t) ==
  /\ pc[t] = "cd_unlock" /\ op[t] = "pop_list_try"
  /\ mx' = Unlock(t, CheckForDataMutex)
  /\ ws' = [ws EXCEPT ![t] = 0]
  /\ pc' = [pc EXCEPT ![t] = "cd_lock"]
  /\ UNCHANGED <<queueVars, cv, op, value, valueRef, rs, ns, work, idx, ret,
                 got, prog, nextv, fixedVars, histVars>>

\* try_pop returns true without a signal; pop_list: work[i++] =
\* move(value), then the next try_pop or return work
PopListTryStore(t) ==
  /\ pc[t] = "pop_notify" /\ op[t] = "pop_list_try"
  /\ ws' = [ws EXCEPT ![t] = 0]
  /\ rs' = [rs EXCEPT ![t] = 0]
  /\ ns' = [ns EXCEPT ![t] = 0]
  /\ IF idx[t] < Len(work[t])
       THEN /\ work' = [work EXCEPT ![t][idx[t]] = valueRef[t]]
            /\ idx' = [idx EXCEPT ![t] = @ + 1]
            /\ pc' = [pc EXCEPT ![t] = "cd_lock"]
            /\ UNCHANGED <<op, ret, got>>
       ELSE /\ op' = [op EXCEPT ![t] = "none"]
            /\ ret' = [ret EXCEPT ![t] = "work"]
            /\ got' = [got EXCEPT ![t] =
                         @ \o [work[t] EXCEPT ![idx[t]] = valueRef[t]]]
            /\ work' = [work EXCEPT ![t] = <<>>]
            /\ idx' = [idx EXCEPT ![t] = 0]
            /\ pc' = [pc EXCEPT ![t] = "idle"]
  /\ UNCHANGED <<queueVars, mx, cv, value, valueRef, prog, nextv, fixedVars,
                 histVars>>

\* ------------------------------------------------------------- one caller
\* A QueueBTS_ instance used by one thread only (bq_initial_tests): with no
\* other thread, each public operation is one step from the state before the
\* call to the state after it.

\* constexpr size_t capacity = 5 of the single-threaded tests
TestCapacity == 5

\* _index_advance(i)
IndexAdvance(i, cap) == IF i + 1 = cap THEN 0 ELSE i + 1

\* the instance before its constructor runs, and after assert() has ended
\* the program
Instance(st) ==
  [state |-> st, capacity |-> 0, cont |-> <<>>, size |-> 0, head |-> 0,
   tail |-> 0, isOK |-> FALSE]

\* QueueBTS_(cap).  ndebug: the build defines NDEBUG, assert() expands to
\* nothing.  allocOk: _cont.resize(cap, T{}) does not throw.
Construct(cap, ndebug, allocOk) ==
  IF ~ndebug /\ ~(cap >= 2) THEN Instance("aborted")
  ELSE IF allocOk
    THEN [state |-> "built", capacity |-> cap,
          cont |-> [i \in 0..(cap - 1) |-> DefaultT], size |-> 0,
          head |-> 0, tail |-> 0, isOK |-> TRUE]
    ELSE [state |-> "built", capacity |-> cap, cont |-> <<>>, size |-> 0,
          head |-> 0, tail |-> 0, isOK |-> FALSE]

\* mutant: try_push writes and counts also when the queue is full
SeqTryPush_Overwrite(q, v) ==
  [q |-> [q EXCEPT !.cont[q.tail] = v,
                   !.tail = IndexAdvance(q.tail, q.capacity),
                   !.size = SizeInc(q.size)],
   ret |-> TRUE]

\* try_push(v) with no other thread: the instance after the call, and what
\* the call returned
SeqTryPush(q, v) ==
  IF q.size < q.capacity
    THEN [q |-> [q EXCEPT !.cont[q.tail] = v,
                          !.tail = IndexAdvance(q.tail, q.capacity),
                          !.size = SizeInc(q.size)],
          ret |-> TRUE]
    ELSE [q |-> q, ret |-> FALSE]

\* try_pop(value) with no other thread: the instance after the call, what the
\* call returned and the caller's variable after it
SeqTryPop(q, val) ==
  IF q.size > 0
    THEN [q |-> [q EXCEPT !.head = IndexAdvance(q.head, q.capacity),
                          !.size = SizeDec(q.size)],
          ret |-> TRUE, value |-> q.cont[q.head]]
    ELSE [q |-> q, ret |-> FALSE, value |-> val]

\* operator<< : the element list it prints, _size elements from
\* _index_advance(_head - _cont.begin()) on
RECURSIVE DumpFrom(_, _, _)
DumpFrom(q, ind, n) ==
  IF n = 0 THEN <<>>
  ELSE <<q.cont[ind]>> \o DumpFrom(q, IndexAdvance(ind, q.capacity), n - 1)

Dump(q) ==
  IF q.size > 0 THEN DumpFrom(q, IndexAdvance(q.head, q.capacity), q.size)
  ELSE <<>>

\* bq_initial_tests, for a capacity cap and k pops in the middle: fill the
\* queue with 0..cap-1, try one more, pop k, push 0..k-1, pop cap, pop once
\* more
Calls(o, n, first) == [i \in 1..n |-> [op |-> o, arg |-> first + i - 1]]

TestScript(cap, k) ==
  Calls("try_push", cap, 0) \o Calls("try_push", 1, cap)
    \o Calls("try_pop", k, 0) \o Calls("try_push", k, 0)
    \o Calls("try_pop", cap, 0) \o Calls("try_pop", 1, 0)

\* int value = 0 of the test: the variable try_pop(value) writes
SeqValue == IF sres = <<>> THEN DefaultT ELSE sres[Len(sres)].value

SeqUnused ==
  /\ sq = Instance("none")
  /\ sscript = <<>>
  /\ sstep = 0
  /\ sres = <<>>

\* QueueBTS_<int> bq{capacity}
SeqConstruct ==
  /\ sq.state = "none"
  /\ \E cap \in 0..TestCapacity, ndebug \in BOOLEAN, allocOk \in BOOLEAN :
       /\ sq' = Construct(cap, ndebug, allocOk)
       /\ \E k \in 0..TestCapacity :
            /\ k <= cap
            /\ sscript' = TestScript(cap, k)
  /\ UNCHANGED <<sstep, sres, btsVars, tsVars, pqVars>>

\* the next call of the test, followed by the dump the test logs
SeqCall ==
  /\ sq.state = "built" /\ sq.isOK /\ sq.capacity >= 2
  /\ sstep < Len(sscript)
  /\ LET c == sscript[sstep + 1]
         r == IF c.op = "try_push"
                THEN [q |-> SeqTryPush(sq, c.arg).q,
                      ret |-> SeqTryPush(sq, c.arg).ret, value |-> SeqValue]
                ELSE SeqTryPop(sq, SeqValue)
     IN  /\ sq' = r.q
         /\ sres' = Append(sres, [ret |-> r.ret, value |-> r.value,
                                  dump |-> Dump(r.q)])
  /\ sstep' = sstep + 1
  /\ UNCHANGED <<sscript, btsVars, tsVars, pqVars>>

\* ------------------------------------------------------------- QueueTSFG_
\* sNode_* == nullptr
NoNode == 0

\* sNode_(): _data{}, _next{}
NewNode == [data |-> <<>>, next |-> NoNode]

\* the threads of test_qts.cpp: w_th_1, w_th_2, w_th_3 (place_in_coll) and
\* r_th_1 (extract_from_coll)
TsWriters == {1, 2, 3}
TsReaders == {4}

\* Comp{3}
TsFactor == 3

\* Comp{f}(v, r): v % f == r
Comp(f, v, r) == v % f = r

\* place_in_coll(coll, count, Comp{f}, res): the next i >= from that passes
\* the test, count when there is none
RECURSIVE NextPlaced(_, _, _, _)
NextPlaced(from, count, f, res) ==
  IF from >= count THEN count
  ELSE IF Comp(f, from, res) THEN from
  ELSE NextPlaced(from + 1, count, f, res)

\* the residue main() gives writer t: 1 to w_th_1, 2 to w_th_2, 0 to w_th_3
Residue(t) == t % TsFactor

TsFree(m) == tmx[m] = NoThread

\* QueueTSFG_(): _head{new sNode_}, _tail{_head.get()}
TsInitQueue ==
  /\ tnodes = <<NewNode>>
  /\ thead = 1
  /\ ttail = 1
  /\ tmx = [m \in {"head", "tail"} |-> NoThread]
  /\ tpos = [t \in Threads |-> "idle"]
  /\ top = [t \in Threads |-> "none"]
  /\ tval = [t \in Threads |-> 0]
  /\ tnew = [t \in Threads |-> NoNode]
  /\ ttl = [t \in Threads |-> NoNode]
  /\ tcur = [t \in Threads |-> NoNode]
  /\ tret = [t \in Threads |-> "none"]
  /\ tdata = [t \in Threads |-> <<>>]
  /\ tgot = [t \in Threads |-> <<>>]
  /\ ti = [t \in Threads |-> 0]
  /\ tnextv = 0
  /\ tpushed = <<>>
  /\ tpopped = <<>>
  /\ tcv = {}

\* no thread uses the linked-list queue
TsUnused ==
  /\ TsInitQueue
  /\ trole = [t \in Threads |-> "none"]

\* push(value), up to the lock: new_data and new_dummy_node are made
TsStartPush(t, v) ==
  /\ top' = [top EXCEPT ![t] = "push"]
  /\ tval' = [tval EXCEPT ![t] = v]
  /\ tnodes' = Append(tnodes, NewNode)
  /\ tnew' = [tnew EXCEPT ![t] = Len(tnodes) + 1]
  /\ tret' = [tret EXCEPT ![t] = "none"]
  /\ tpos' = [tpos EXCEPT ![t] = "p_lock"]

\* a free caller pushes a fresh value
TsCallPush(t) ==
  /\ tpos[t] = "idle" /\ trole[t] = "pusher" /\ tnextv < TsMaxVal
  /\ TsStartPush(t, tnextv)
  /\ tnextv' = tnextv + 1
  /\ UNCHANGED <<thead, ttail, tmx, ttl, tcur, tdata, tgot, trole, ti,
                 tpushed, tpopped, tcv, nonTsVars>>

\* place_in_coll: for (i = 0; i < count; ++i) if (c(i, res)) coll.push(i)
TsPlaceInColl(t) ==
  /\ tpos[t] = "idle" /\ trole[t] = "writer"
  /\ LET i == NextPlaced(ti[t], TsCount, TsFactor, Residue(t))
     IN  /\ i < TsCount
         /\ TsStartPush(t, i)
         /\ ti' = [ti EXCEPT ![t] = i + 1]
  /\ UNCHANGED <<thead, ttail, tmx, ttl, tcur, tdata, tgot, trole, tnextv,
                 tpushed, tpopped, tcv, nonTsVars>>

\* push: std::lock_guard lu{_mx_tail}
TsPushLock(t) ==
  /\ tpos[t] = "p_lock" /\ TsFree("tail")
  /\ tmx' = [tmx EXCEPT !["tail"] = t]
  /\ tpos' = [tpos EXCEPT ![t] = "p_data"]
  /\ UNCHANGED <<tnodes, thead, ttail, top, tval, tnew, ttl, tcur, tret, tdata,
                 tgot, trole, ti, tnextv, tpushed, tpopped, tcv, nonTsVars>>

\* mutant: push leaves the node _tail points to without data
TsPushData_Empty(t) ==
  /\ tpos[t] = "p_data"
  /\ tpushed' = Append(tpushed, tval[t])
  /\ tpos' = [tpos EXCEPT ![t] = "p_next"]
  /\ UNCHANGED <<tnodes, thead, ttail, tmx, top, tval, tnew, ttl, tcur, tret,
                 tdata, tgot, trole, ti, tnextv, tpopped, tcv, nonTsVars>>

\* push: _tail->_data = std::move(new_data)
TsPushData(t) ==
  /\ tpos[t] = "p_data"
  /\ tnodes' = [tnodes EXCEPT ![ttail].data = <<tval[t]>>]
  /\ tpushed' = Append(tpushed, tval[t])
  /\ tpos' = [tpos EXCEPT ![t] = "p_next"]
  /\ UNCHANGED <<thead, ttail, tmx, top, tval, tnew, ttl, tcur, tret, tdata,
                 tgot, trole, ti, tnextv, tpopped, tcv, nonTsVars>>

\* push: _tail->_next = std::move(new_dummy_node)
TsPushNext(t) ==
  /\ tpos[t] = "p_next"
  /\ tnodes' = [tnodes EXCEPT ![ttail].next = tnew[t]]
  /\ tnew' = [tnew EXCEPT ![t] = NoNode]
  /\ tpos' = [tpos EXCEPT ![t] = "p_tail"]
  /\ UNCHANGED <<thead, ttail, tmx, top, tval, ttl, tcur, tret, tdata, tgot,
                 trole, ti, tnextv, tpushed, tpopped, tcv, nonTsVars>>

\* mutant: push leaves _tail on the node it has just filled
TsPushTail_Stay(t) ==
  /\ tpos[t] = "p_tail"
  /\ tpos' = [tpos EXCEPT ![t] = "p_unlock"]
  /\ UNCHANGED <<tnodes, thead, ttail, tmx, top, tval, tnew, ttl, tcur, tret,
                 tdata, tgot, trole, ti, tnextv, tpushed, tpopped, tcv,
                 nonTsVars>>

\* push: _tail = _tail->_next.get()
TsPushTail(t) ==
  /\ tpos[t] = "p_tail"
  /\ ttail' = tnodes[ttail].next
  /\ tpos' = [tpos EXCEPT ![t] = "p_unlock"]
  /\ UNCHANGED <<tnodes, thead, tmx, top, tval, tnew, ttl, tcur, tret, tdata,
                 tgot, trole, ti, tnextv, tpushed, tpopped, tcv, nonTsVars>>

\* push: end of the lock block
TsPushUnlock(t) ==
  /\ tpos[t] = "p_unlock"
  /\ tmx' = [tmx EXCEPT !["tail"] = NoThread]
  /\ tpos' = [tpos EXCEPT ![t] = "p_notify"]
  /\ UNCHANGED <<tnodes, thead, ttail, top, tval, tnew, ttl, tcur, tret, tdata,
                 tgot, trole, ti, tnextv, tpushed, tpopped, tcv, nonTsVars>>

\* _cv_empty.notify_one() by thread t, which returns after it: one of the
\* threads blocked in wait(), if any, leaves the block
TsNotifyOne(t) ==
  IF tcv = {}
    THEN /\ tcv' = tcv
         /\ tpos' = [tpos EXCEPT ![t] = "idle"]
    ELSE \E w \in tcv :
           /\ tcv' = tcv \ {w}
           /\ tpos' = [tpos EXCEPT ![t] = "idle", ![w] = "w_relock"]

\* push: _cv_empty.notify_one(); return true
TsPushReturn(t) ==
  /\ tpos[t] = "p_notify"
  /\ TsNotifyOne(t)
  /\ top' = [top EXCEPT ![t] = "none"]
  /\ tret' = [tret EXCEPT ![t] = "true"]
  /\ UNCHANGED <<tnodes, thead, ttail, tmx, tval, tnew, ttl, tcur, tdata, tgot,
                 trole, ti, tnextv, tpushed, tpopped, nonTsVars>>

\* try_pop(), up to _check_for_data's lock
TsStartTryPop(t) ==
  /\ top' = [top EXCEPT ![t] = "try_pop"]
  /\ tret' = [tret EXCEPT ![t] = "none"]
  /\ tdata' = [tdata EXCEPT ![t] = <<>>]
  /\ tcur' = [tcur EXCEPT ![t] = NoNode]
  /\ tpos' = [tpos EXCEPT ![t] = "c_lock"]

\* a free caller polls
TsCallTryPop(t) ==
  /\ tpos[t] = "idle" /\ trole[t] = "popper"
  /\ TsStartTryPop(t)
  /\ UNCHANGED <<tnodes, thead, ttail, tmx, tval, tnew, ttl, tgot, trole, ti,
                 tnextv, tpushed, tpopped, tcv, nonTsVars>>

\* _check_for_data: std::unique_lock lu{_mx_head}
TsCheckLock(t) ==
  /\ tpos[t] = "c_lock" /\ TsFree("head")
  /\ tmx' = [tmx EXCEPT !["head"] = t]
  /\ tpos' = [tpos EXCEPT ![t] = "t_lock"]
  /\ UNCHANGED <<tnodes, thead, ttail, top, tval, tnew, ttl, tcur, tret, tdata,
                 tgot, trole, ti, tnextv, tpushed, tpopped, tcv, nonTsVars>>

\* _get_tail: std::lock_guard lu{_mx_tail}
TsGetTailLock(t) ==
  /\ tpos[t] = "t_lock" /\ TsFree("tail")
  /\ tmx' = [tmx EXCEPT !["tail"] = t]
  /\ tpos' = [tpos EXCEPT ![t] = "t_read"]
  /\ UNCHANGED <<tnodes, thead, ttail, top, tval, tnew, ttl, tcur, tret, tdata,
                 tgot, trole, ti, tnextv, tpushed, tpopped, tcv, nonTsVars>>

\* _get_tail: return _tail
TsGetTailRead(t) ==
  /\ tpos[t] = "t_read"
  /\ ttl' = [ttl EXCEPT ![t] = ttail]
  /\ tpos' = [tpos EXCEPT ![t] = "t_unlock"]
  /\ UNCHANGED <<tnodes, thead, ttail, tmx, top, tval, tnew, tcur, tret, tdata,
                 tgot, trole, ti, tnextv, tpushed, tpopped, tcv, nonTsVars>>

\* mutant: the comparison of _check_for_data the other way round
TsHasData_Equal(t) == thead = ttl[t]

\* _check_for_data: _head.get() != _get_tail()
TsHasData(t) == thead /= ttl[t]

\* mutant: _get_tail leaves _mx_tail locked
TsGetTailUnlock_Keep(t) ==
  /\ tpos[t] = "t_unlock"
  /\ tpos' = [tpos EXCEPT ![t] = IF TsHasData(t) THEN "pop_head"
                                 ELSE IF top[t] = "wait_and_pop" THEN "w_wait"
                                 ELSE "c_fail"]
  /\ UNCHANGED <<tnodes, thead, ttail, tmx, top, tval, tnew, ttl, tcur, tret,
                 tdata, tgot, trole, ti, tnextv, tpushed, tpopped, tcv,
                 nonTsVars>>

\* _get_tail: the lock_guard goes; _check_for_data compares and hands back
\* the lock on _mx_head or nothing; the predicate of _wait_for_data compares
\* and wait() returns or blocks
TsGetTailUnlock(t) ==
  /\ tpos[t] = "t_unlock"
  /\ tmx' = [tmx EXCEPT !["tail"] = NoThread]
  /\ tpos' = [tpos EXCEPT ![t] = IF TsHasData(t) THEN "pop_head"
                                 ELSE IF top[t] = "wait_and_pop" THEN "w_wait"
                                 ELSE "c_fail"]
  /\ UNCHANGED <<tnodes, thead, ttail, top, tval, tnew, ttl, tcur, tret, tdata,
                 tgot, trole, ti, tnextv, tpushed, tpopped, tcv, nonTsVars>>

\* _check_for_data: lu goes, the optional is empty;
\* try_pop: if (!result) return nullptr
TsCheckFail(t) ==
  /\ tpos[t] = "c_fail"
  /\ tmx' = [tmx EXCEPT !["head"] = NoThread]
  /\ top' = [top EXCEPT ![t] = "none"]
  /\ tret' = [tret EXCEPT ![t] = "null"]
  /\ tpos' = [tpos EXCEPT ![t] = "idle"]
  /\ UNCHANGED <<tnodes, thead, ttail, tval, tnew, ttl, tcur, tdata, tgot,
                 trole, ti, tnextv, tpushed, tpopped, tcv, nonTsVars>>

\* _pop_protected_head: curr_head = std::move(_head);
\* _head = std::move(curr_head->_next)
TsPopHead(t) ==
  /\ tpos[t] = "pop_head"
  /\ tcur' = [tcur EXCEPT ![t] = thead]
  /\ thead' = tnodes[thead].next
  /\ tpopped' = Append(tpopped, tnodes[thead].data)
  /\ tpos' = [tpos EXCEPT ![t] = "pop_unlock"]
  /\ UNCHANGED <<tnodes, ttail, tmx, top, tval, tnew, ttl, tret, tdata, tgot,
                 trole, ti, tnextv, tpushed, tcv, nonTsVars>>

\* try_pop: end of the protected section, result releases _mx_head
TsPopUnlock(t) ==
  /\ tpos[t] = "pop_unlock"
  /\ tmx' = [tmx EXCEPT !["head"] = NoThread]
  /\ tpos' = [tpos EXCEPT ![t] = "pop_ret"]
  /\ UNCHANGED <<tnodes, thead, ttail, top, tval, tnew, ttl, tcur, tret, tdata,
                 tgot, trole, ti, tnextv, tpushed, tpopped, tcv, nonTsVars>>

\* try_pop: return std::move(curr_head->_data)
TsPopReturn(t) ==
  /\ tpos[t] = "pop_ret"
  /\ tdata' = [tdata EXCEPT ![t] = tnodes[tcur[t]].data]
  /\ tret' = [tret EXCEPT ![t] =
                IF tnodes[tcur[t]].data = <<>> THEN "null" ELSE "data"]
  /\ top' = [top EXCEPT ![t] = "none"]
  /\ tpos' = [tpos EXCEPT ![t] = "idle"]
  /\ UNCHANGED <<tnodes, thead, ttail, tmx, tval, tnew, ttl, tcur, tgot, trole,
                 ti, tnextv, tpushed, tpopped, tcv, nonTsVars>>

\* extract_from_coll: handle = coll.try_pop(), before the loop
TsExtractFirst(t) ==
  /\ tpos[t] = "idle" /\ trole[t] = "reader" /\ tret[t] = "none"
  /\ TsStartTryPop(t)
  /\ UNCHANGED <<tnodes, thead, ttail, tmx, tval, tnew, ttl, tgot, trole, ti,
                 tnextv, tpushed, tpopped, tcv, nonTsVars>>

\* extract_from_coll: i < count; if (handle) { cont.push_back(*handle); ++i };
\* handle = coll.try_pop()
TsExtractBody(t) ==
  /\ tpos[t] = "idle" /\ trole[t] = "reader" /\ tret[t] /= "none"
  /\ ti[t] < TsCount
  /\ IF tret[t] = "data"
       THEN /\ tgot' = [tgot EXCEPT ![t] = Append(@, tdata[t][1])]
            /\ ti' = [ti EXCEPT ![t] = @ + 1]
       ELSE UNCHANGED <<tgot, ti>>
  /\ TsStartTryPop(t)
  /\ UNCHANGED <<tnodes, thead, ttail, tmx, tval, tnew, ttl, trole, tnextv,
                 tpushed, tpopped, tcv, nonTsVars>>

\* extract_from_coll: i < count fails, the function returns
TsExtractDone(t) ==
  /\ tpos[t] = "idle" /\ trole[t] = "reader" /\ tret[t] /= "none"
  /\ ti[t] >= TsCount
  /\ tpos' = [tpos EXCEPT ![t] = "done"]
  /\ UNCHANGED <<tnodes, thead, ttail, tmx, top, tval, tnew, ttl, tcur, tret,
                 tdata, tgot, trole, ti, tnextv, tpushed, tpopped, tcv,
                 nonTsVars>>

\* a free caller calls wait_and_pop()
TsCallWaitAndPop(t) ==
  /\ tpos[t] = "idle" /\ trole[t] = "waiter"
  /\ top' = [top EXCEPT ![t] = "wait_and_pop"]
  /\ tret' = [tret EXCEPT ![t] = "none"]
  /\ tdata' = [tdata EXCEPT ![t] = <<>>]
  /\ tcur' = [tcur EXCEPT ![t] = NoNode]
  /\ tpos' = [tpos EXCEPT ![t] = "w_lock"]
  /\ UNCHANGED <<tnodes, thead, ttail, tmx, tval, tnew, ttl, tgot, trole, ti,
                 tnextv, tpushed, tpopped, tcv, nonTsVars>>

\* _wait_for_data: std::unique_lock lu{_mx_head}; then the predicate
TsWaitLock(t) ==
  /\ tpos[t] = "w_lock" /\ TsFree("head")
  /\ tmx' = [tmx EXCEPT !["head"] = t]
  /\ tpos' = [tpos EXCEPT ![t] = "t_lock"]
  /\ UNCHANGED <<tnodes, thead, ttail, top, tval, tnew, ttl, tcur, tret, tdata,
                 tgot, trole, ti, tnextv, tpushed, tpopped, tcv, nonTsVars>>

\* _cv_empty.wait(lu, pred), pred false: release _mx_head and block, atomically
TsWaitWait(t) ==
  /\ tpos[t] = "w_wait"
  /\ tmx' = [tmx EXCEPT !["head"] = NoThread]
  /\ tcv' = tcv \cup {t}
  /\ tpos' = [tpos EXCEPT ![t] = "w_sleep"]
  /\ UNCHANGED <<tnodes, thead, ttail, top, tval, tnew, ttl, tcur, tret, tdata,
                 tgot, trole, ti, tnextv, tpushed, tpopped, nonTsVars>>

\* _cv_empty.wait(lu, pred): woken, take _mx_head again, then the predicate
TsWaitRelock(t) ==
  /\ tpos[t] = "w_relock" /\ TsFree("head")
  /\ tmx' = [tmx EXCEPT !["head"] = t]
  /\ tpos' = [tpos EXCEPT ![t] = "t_lock"]
  /\ UNCHANGED <<tnodes, thead, ttail, top, tval, tnew, ttl, tcur, tret, tdata,
                 tgot, trole, ti, tnextv, tpushed, tpopped, tcv, nonTsVars>>

\* condition_variable::wait may return without a notification
TsSpuriousWake(t) ==
  /\ t \in tcv
  /\ tcv' = tcv \ {t}
  /\ tpos' = [tpos EXCEPT ![t] = "w_relock"]
  /\ UNCHANGED <<tnodes, thead, ttail, tmx, top, tval, tnew, ttl, tcur, tret,
                 tdata, tgot, trole, ti, tnextv, tpushed, tpopped, nonTsVars>>

\* one step of the code of push
TsPushStep(t) ==
  \/ TsPushLock(t) \/ TsPushData(t) \/ TsPushNext(t) \/ TsPushTail(t)
  \/ TsPushUnlock(t) \/ TsPushReturn(t)

\* one step of the code of try_pop
TsTryPopStep(t) ==
  \/ TsCheckLock(t) \/ TsGetTailLock(t) \/ TsGetTailRead(t)
  \/ TsGetTailUnlock(t) \/ TsCheckFail(t)
  \/ TsPopHead(t) \/ TsPopUnlock(t) \/ TsPopReturn(t)

\* a free caller calls empty()
TsCallEmpty(t) ==
  /\ tpos[t] = "idle" /\ trole[t] = "prober"
  /\ top' = [top EXCEPT ![t] = "empty"]
  /\ tret' = [tret EXCEPT ![t] = "none"]
  /\ tpos' = [tpos EXCEPT ![t] = "e_lock"]
  /\ UNCHANGED <<tnodes, thead, ttail, tmx, tval, tnew, ttl, tcur, tdata, tgot,
                 trole, ti, tnextv, tpushed, tpopped, tcv, nonTsVars>>

\* empty: std::lock_guard lu{_mx_head}
TsEmptyLock(t) ==
  /\ tpos[t] = "e_lock" /\ TsFree("head")
  /\ tmx' = [tmx EXCEPT !["head"] = t]
  /\ tpos' = [tpos EXCEPT ![t] = "e_tail"]
  /\ UNCHANGED <<tnodes, thead, ttail, top, tval, tnew, ttl, tcur, tret, tdata,
                 tgot, trole, ti, tnextv, tpushed, tpopped, tcv, nonTsVars>>

\* empty: _get_tail(): std::lock_guard lu{_mx_tail}
TsEmptyGetTail(t) ==
  /\ tpos[t] = "e_tail" /\ TsFree("tail")
  /\ tmx' = [tmx EXCEPT !["tail"] = t]
  /\ tpos' = [tpos EXCEPT ![t] = "e_read"]
  /\ UNCHANGED <<tnodes, thead, ttail, top, tval, tnew, ttl, tcur, tret, tdata,
                 tgot, trole, ti, tnextv, tpushed, tpopped, tcv, nonTsVars>>

\* empty: _get_tail() returns _tail, its guard released
TsEmptyRead(t) ==
  /\ tpos[t] = "e_read"
  /\ ttl' = [ttl EXCEPT ![t] = ttail]
  /\ tmx' = [tmx EXCEPT !["tail"] = NoThread]
  /\ tpos' = [tpos EXCEPT ![t] = "e_ret"]
  /\ UNCHANGED <<tnodes, thead, ttail, top, tval, tnew, tcur, tret, tdata,
                 tgot, trole, ti, tnextv, tpushed, tpopped, tcv, nonTsVars>>

\* empty: return _head.get() == the tail read; the guard of _mx_head goes
TsEmptyReturn(t) ==
  /\ tpos[t] = "e_ret"
  /\ tret' = [tret EXCEPT ![t] = IF thead = ttl[t] THEN "empty" ELSE "not_empty"]
  /\ tmx' = [tmx EXCEPT !["head"] = NoThread]
  /\ top' = [top EXCEPT ![t] = "none"]
  /\ tpos' = [tpos EXCEPT ![t] = "idle"]
  /\ UNCHANGED <<tnodes, thead, ttail, tval, tnew, ttl, tcur, tdata, tgot,
                 trole, ti, tnextv, tpushed, tpopped, tcv, nonTsVars>>

\* one step of the code of empty
TsEmptyStep(t) ==
  \/ TsEmptyLock(t) \/ TsEmptyGetTail(t) \/ TsEmptyRead(t) \/ TsEmptyReturn(t)

\* ------------------------------------------------------------- PQueue_
\* PQueue_(): _cont.reserve(2), _cont.push_back(DTy{}), _isOK = true; when
\* the allocation throws the vector stays empty and _isOK false
PqDefault == [cont |-> <<DefaultT>>, cap |-> 2, isOK |-> TRUE]
PqFailed  == [cont |-> <<>>, cap |-> 0, isOK |-> FALSE]

\* what the caller remembers of its last call: the operation, its argument,
\* what it returned (<<>> is the empty optional), the variable handed to
\* pop(value), and whether every allocation of the call succeeded
PqCall(o, a, r, v, ok) ==
  [op |-> o, arg |-> a, ret |-> r, value |-> v, alloc |-> ok]

\* nobody uses the priority queue
PqUnused ==
  /\ pq = PqDefault
  /\ pcomp = "less"
  /\ pin = <<>>
  /\ pout = <<>>
  /\ plast = PqCall("none", <<>>, <<>>, DefaultT, TRUE)

\* Compare: std::less<int> or std::greater<int>
PqComp(c, a, b) == IF c = "less" THEN a < b ELSE a > b

\* _ind_p, _ind_lc, _ind_rc, _ind_next
IndP(ind)  == ind \div 2
IndLc(ind) == ind * 2
IndRc(ind) == ind * 2 + 1
IndNext    == 1

\* _cont[ind]: entry ind + 1 of the sequence
At(c, ind) == c[ind + 1]

\* size() of a queue whose vector is c
PqSize(c) == IF Len(c) > 0 THEN Len(c) - 1 ELSE 0

\* _is_valid, _has_parent, _has_left_child, _has_right_child
IsValid(c, ind)       == ind > 0 /\ ind <= PqSize(c)
HasParent(c, ind)     == IsValid(c, ind) /\ IsValid(c, IndP(ind))
HasLeftChild(c, ind)  == IsValid(c, ind) /\ IsValid(c, IndLc(ind))
HasRightChild(c, ind) == IsValid(c, ind) /\ IsValid(c, IndRc(ind))

\* std::swap(_cont[i], _cont[j])
Swap(c, i, j) == [c EXCEPT ![i + 1] = c[j + 1], ![j + 1] = c[i + 1]]

\* _comp_child(ind): the child that compares OK to the other
CompChild(c, comp, ind) ==
  IF ~HasRightChild(c, ind) THEN IndLc(ind)
  ELSE IF PqComp(comp, At(c, IndLc(ind)), At(c, IndRc(ind))) THEN IndLc(ind)
  ELSE IndRc(ind)

\* _heapifyUP(ind)
RECURSIVE HeapifyUP(_, _, _)
HeapifyUP(c, comp, ind) ==
  IF HasParent(c, ind) /\ PqComp(comp, At(c, ind), At(c, IndP(ind)))
    THEN HeapifyUP(Swap(c, ind, IndP(ind)), comp, IndP(ind))
    ELSE c

\* _heapifyDOWN(ind)
RECURSIVE HeapifyDOWN(_, _, _)
HeapifyDOWN(c, comp, ind) ==
  IF ~HasLeftChild(c, ind) THEN c
  ELSE LET child == CompChild(c, comp, ind)
       IN  IF PqComp(comp, At(c, ind), At(c, child)) THEN c
           ELSE HeapifyDOWN(Swap(c, ind, child), comp, child)

\* the constructor's loop: for (ind = start; ind > 0; --ind) _heapifyDOWN(ind)
RECURSIVE HeapifyAll(_, _, _)
HeapifyAll(c, comp, ind) ==
  IF ind = 0 THEN c
  ELSE HeapifyAll(HeapifyDOWN(c, comp, ind), comp, ind - 1)

\* size_t ind = this->_parent(this->size()): _parent returns the parent
\* ELEMENT (value_type&), so the loop starts at that element's value
FirstParent(c) == At(c, IndP(PqSize(c)))

\* _level(ind): the number of powers of two up to ind
RECURSIVE Level(_, _)
Level(ind, nh) == IF nh <= ind THEN 1 + Level(ind, nh * 2) ELSE 0

RECURSIVE Pow2(_)
Pow2(n) == IF n = 0 THEN 1 ELSE 2 * Pow2(n - 1)

Max(a, b) == IF a >= b THEN a ELSE b

\* PQueue_(std::initializer_list<DTy>): *this = PQueue_{}; the vector of
\* 1 + size elements; the elements moved in; the heap built; capacity kept
\* as 2 ^ height.  A throwing Container(n) leaves the default queue, _isOK
\* true from the assignment.
FromList(list, comp, allocOk) ==
  IF ~allocOk THEN PqDefault
  ELSE LET c0 == <<DefaultT>> \o list
           c1 == IF Len(list) > 1
                   THEN HeapifyAll(c0, comp, FirstParent(c0))
                   ELSE c0
       IN  [cont |-> c1,
            cap  |-> IF Len(list) > 1
                       THEN Max(Len(c0), Pow2(Level(PqSize(c0), 1)))
                       ELSE Len(c0),
            isOK |-> TRUE]

\* push(value): _reserve() (doubling, may throw: return false), push_back,
\* _heapifyUP(size()), return true
Push(q, comp, v, allocOk) ==
  IF q.cap = Len(q.cont) /\ ~allocOk
    THEN [q |-> q, ret |-> FALSE]
    ELSE [q |-> [cont |-> HeapifyUP(Append(q.cont, v), comp, Len(q.cont)),
                 cap  |-> IF q.cap = Len(q.cont) THEN 2 * q.cap ELSE q.cap,
                 isOK |-> TRUE],
          ret |-> TRUE]

\* mutant: _popPQ leaves the heap as the move of the last element made it
PopPQ_NoHeapify(q, comp) ==
  LET pqs == PqSize(q.cont)
      c1  == IF pqs > 1 THEN [q.cont EXCEPT ![IndNext + 1] = At(q.cont, pqs)]
             ELSE q.cont
  IN  [q |-> [q EXCEPT !.cont = SubSeq(c1, 1, Len(c1) - 1), !.isOK = TRUE],
       value |-> At(q.cont, IndNext)]

\* _popPQ(): value = _next_to_go(); the last element moved to position 1;
\* the last position erased; _heapifyDOWN(1)
PopPQ(q, comp) ==
  LET pqs == PqSize(q.cont)
      c1  == IF pqs > 1 THEN [q.cont EXCEPT ![IndNext + 1] = At(q.cont, pqs)]
             ELSE q.cont
      c2  == SubSeq(c1, 1, Len(c1) - 1)
      c3  == IF pqs > 2 THEN HeapifyDOWN(c2, comp, IndNext) ELSE c2
  IN  [q |-> [q EXCEPT !.cont = c3, !.isOK = TRUE],
       value |-> At(q.cont, IndNext)]

\* mutant: pop() on an empty queue hands out the padding element
Pop_Padding(q, comp) ==
  IF PqSize(q.cont) = 0 /\ Len(q.cont) > 0
    THEN [q |-> [q EXCEPT !.cont = <<>>], ret |-> <<q.cont[1]>>]
  ELSE IF PqSize(q.cont) = 0 THEN [q |-> q, ret |-> <<>>]
  ELSE LET r == PopPQ(q, comp) IN [q |-> r.q, ret |-> <<r.value>>]

\* pop(): the empty optional when size() == 0, else _popPQ()
Pop(q, comp) ==
  IF PqSize(q.cont) = 0 THEN [q |-> q, ret |-> <<>>]
  ELSE LET r == PopPQ(q, comp) IN [q |-> r.q, ret |-> <<r.value>>]

\* pop(value): if (size() != 0) value = _popPQ()
PopInto(q, comp, v) ==
  IF PqSize(q.cont) /= 0
    THEN LET r == PopPQ(q, comp) IN [q |-> r.q, value |-> r.value]
    ELSE [q |-> q, value |-> v]

\* peek(): _cont.size() > 1 ? _cont[1] : _cont[0]
Peek(q) == IF Len(q.cont) > 1 THEN q.cont[2] ELSE q.cont[1]

\* collection_from_PQ(pq): while (pq.size() > 0) res.push_back(*pq.pop())
RECURSIVE CollectionFromPQ(_, _)
CollectionFromPQ(q, comp) ==
  IF PqSize(q.cont) = 0 THEN <<>>
  ELSE LET r == Pop(q, comp) IN r.ret \o CollectionFromPQ(r.q, comp)

PqValues == 0..PqMaxVal

\* the lists of at most n elements
PqLists(n) == UNION {[1..k -> PqValues] : k \in 0..n}

\* PQueue_<int, Compare> pq: the default constructor
PqConstruct ==
  /\ plast.op = "none"
  /\ \E comp \in {"less", "greater"}, allocOk \in BOOLEAN :
       /\ pcomp' = comp
       /\ pq' = IF allocOk THEN PqDefault ELSE PqFailed
       /\ plast' = PqCall("default", <<>>, <<>>, DefaultT, allocOk)
  /\ UNCHANGED <<pin, pout, btsVars, seqVars, tsVars>>

\* PQueue_<int, Compare> pq{...}: the constructor from an initializer list
PqConstructList ==
  /\ plast.op = "none"
  /\ \E comp \in {"less", "greater"}, allocOk \in BOOLEAN,
        list \in PqLists(PqMaxLen) :
       /\ pcomp' = comp
       /\ pq' = FromList(list, comp, allocOk)
       /\ pin' = IF allocOk THEN list ELSE <<>>
       /\ plast' = PqCall("list", list, <<>>, DefaultT, allocOk)
  /\ UNCHANGED <<pout, btsVars, seqVars, tsVars>>

\* the caller uses a queue that is OK (operator bool)
PqUsable == plast.op /= "none" /\ pq.isOK

\* pq.push(v)
PqPush ==
  /\ PqUsable /\ Len(pin) < PqMaxLen
  /\ \E v \in PqValues, allocOk \in BOOLEAN :
       LET r == Push(pq, pcomp, v, allocOk)
       IN  /\ pq' = r.q
           /\ pin' = IF r.ret THEN Append(pin, v) ELSE pin
           /\ plast' = PqCall("push", <<v>>, <<r.ret>>, plast.value, allocOk)
  /\ UNCHANGED <<pcomp, pout, btsVars, seqVars, tsVars>>

\* auto res = pq.pop()
PqPop ==
  /\ PqUsable
  /\ LET r == Pop(pq, pcomp)
     IN  /\ pq' = r.q
         /\ pout' = pout \o r.ret
         /\ plast' = PqCall("pop", <<>>, r.ret, plast.value, TRUE)
  /\ UNCHANGED <<pcomp, pin, btsVars, seqVars, tsVars>>

\* pq.pop(value), value holding v before the call
PqPopInto ==
  /\ PqUsable
  /\ \E v \in PqValues :
       LET r == PopInto(pq, pcomp, v)
       IN  /\ pq' = r.q
           /\ pout' = IF PqSize(pq.cont) /= 0 THEN Append(pout, r.value)
                      ELSE pout
           /\ plast' = PqCall("pop_into", <<v>>, <<>>, r.value, TRUE)
  /\ UNCHANGED <<pcomp, pin, btsVars, seqVars, tsVars>>

\* ------------------------------------------------------------- specifications
TryPushSteps(t) ==
  CheckForCapaLock(t) \/ CheckForCapaRead(t) \/ CheckForCapaFail(t)

WaitPushSteps(t) ==
  \/ WaitForCapaLock(t) \/ WaitForCapaPred(t) \/ WaitForCapaWait(t)
  \/ WaitForCapaRelock(t)

PushCommon(t) ==
  \/ PushWrite(t) \/ PushAdvance(t) \/ PushIncSize(t) \/ PushUnlock(t)
  \/ PushNotify(t)

TryPopSteps(t) == CheckForDataLock(t) \/ CheckForDataFail(t)

WaitPopSteps(t) ==
  WaitForDataLock(t) \/ WaitForDataWait(t) \/ WaitForDataRelock(t)

PopCommon(t) ==
  \/ GetTailLock(t) \/ GetTailRead(t) \/ GetTailUnlock(t)
  \/ PopRead(t) \/ PopAdvance(t) \/ PopCasSuccess(t) \/ PopCasRetry(t)
  \/ PopUnlock(t) \/ PopNotify(t)

SizeSteps(t) == SizeLock(t) \/ SizeRead(t) \/ SizeUnlock(t)

\* the program of threads 1, 2, 3: the operations each may call, any number
\* of times, in any order; thread 4 stays out
Program(a, b, c) ==
  [t \in Threads |-> IF t = 1 THEN a ELSE IF t = 2 THEN b
                     ELSE IF t = 3 THEN c ELSE {}]

\* Spec: three threads on one queue, in one of four casts: two producers and
\* a consumer, or a producer and two consumers, with the single-element
\* operations; and the list operations next to a try_ operation and size()
Programs ==
  { Program({"try_push", "wait_to_push"}, {"try_push", "wait_to_push"},
            {"try_pop", "wait_and_pop"}),
    Program({"try_push", "wait_to_push"}, {"try_pop", "wait_and_pop"},
            {"try_pop", "wait_and_pop"}),
    Program({"push_list"}, {"try_push"}, {"pop_list", "size"}),
    Program({"push_list", "size"}, {"pop_list"}, {"try_pop"}) }

Init ==
  /\ InitCommon
  /\ SeqUnused
  /\ TsUnused
  /\ PqUnused
  /\ maxv = MaxVal
  /\ prog \in Programs

Next ==
  \E t \in Threads :
    \/ CallTryPush(t) \/ CallWaitToPush(t) \/ CallPushList(t)
    \/ CallTryPop(t) \/ CallWaitAndPop(t) \/ CallPopList(t) \/ CallSize(t)
    \/ TryPushSteps(t) \/ WaitPushSteps(t) \/ PushCommon(t)
    \/ TryPopSteps(t) \/ WaitPopSteps(t) \/ PopCommon(t)
    \/ SizeSteps(t)
    \/ SpuriousWake(t)

Spec == Init /\ [][Next]_vars

\* SpecSPSC: one producer (thread 1) and one consumer (thread 2), each with
\* the single-element operations, try_ and wait_ mixed freely
InitSPSC ==
  /\ InitCommon
  /\ SeqUnused
  /\ TsUnused
  /\ PqUnused
  /\ maxv = MaxValSPSC
  /\ prog = Program({"try_push", "wait_to_push"}, {"try_pop", "wait_and_pop"},
                    {})

NextSPSC ==
  \E t \in Threads :
    \/ CallTryPush(t) \/ CallWaitToPush(t)
    \/ CallTryPop(t) \/ CallWaitAndPop(t)
    \/ TryPushSteps(t) \/ WaitPushSteps(t) \/ PushCommon(t)
    \/ TryPopSteps(t) \/ WaitPopSteps(t) \/ PopCommon(t)
    \/ SpuriousWake(t)

SpecSPSC == InitSPSC /\ [][NextSPSC]_vars

\* SpecBulk: bq_concurrent_ths: every writer runs writer_task on its share of
\* the TestSize values, every reader runs reader_task on its share of the
\* count
InitBulk ==
  /\ InitCommon
  /\ SeqUnused
  /\ TsUnused
  /\ PqUnused
  /\ maxv = TestSize
  /\ prog = [t \in Threads |-> IF t \in Writers THEN {"writer_task"}
                               ELSE IF t \in Readers THEN {"reader_task"}
                               ELSE {}]

NextBulk ==
  \E t \in Threads :
    \/ CallWriterTask(t) \/ CallReaderTask(t)
    \/ WaitPushSteps(t) \/ PushCommon(t)
    \/ WaitPopSteps(t) \/ PopCommon(t)
    \/ SpuriousWake(t)

SpecBulk == InitBulk /\ [][NextBulk]_vars

\* a step of thread t inside the call it is making
ThreadSteps(t) ==
  \/ TryPushSteps(t) \/ WaitPushSteps(t) \/ PushCommon(t)
  \/ TryPopSteps(t) \/ WaitPopSteps(t) \/ PopCommon(t)
  \/ SizeSteps(t)

\* fair scheduling: a thread inside a call that can take a step again and
\* again (a mutex it requests is free again and again) takes it.  Starting a
\* call and waking spuriously are never forced.
Fairness == \A t \in Threads : SF_vars(ThreadSteps(t))

\* SpecFair: three threads calling the try_ and wait_ operations, under fair
\* scheduling: a try_push caller next to a wait_to_push caller and a
\* consumer, or a producer next to a try_pop caller and a wait_and_pop caller
InitFair ==
  /\ InitCommon
  /\ SeqUnused
  /\ TsUnused
  /\ PqUnused
  /\ maxv = MaxVal
  /\ prog \in { Program({"try_push"}, {"wait_to_push"},
                        {"try_pop", "wait_and_pop"}),
                Program({"try_push", "wait_to_push"}, {"try_pop"},
                        {"wait_and_pop"}) }

SpecFair == InitFair /\ [][NextSPSC]_vars /\ Fairness

\* SpecSolo: no concurrent consumer.  One thread alone calls every operation
\* in any order (bq_initial_t1: push_list, pop_list, push_list), or two
\* producers push and nobody pops.  Enough values for a list to follow a full
\* queue that has been partly drained.
MaxValSolo == 2 * Capacity

InitSolo ==
  /\ InitCommon
  /\ SeqUnused
  /\ TsUnused
  /\ PqUnused
  /\ maxv = MaxValSolo
  /\ prog \in { Program(PushOps \cup PopOps, {}, {}),
                Program(PushOps, PushOps, {}) }

NextSolo ==
  \E t \in Threads :
    \/ CallTryPush(t) \/ CallWaitToPush(t) \/ CallPushList(t)
    \/ CallTryPop(t) \/ CallWaitAndPop(t) \/ CallPopList(t)
    \/ TryPushSteps(t) \/ WaitPushSteps(t) \/ PushCommon(t)
    \/ TryPopSteps(t) \/ WaitPopSteps(t)
    \/ GetTailLock(t) \/ GetTailRead(t) \/ GetTailUnlock(t)
    \/ PopRead(t) \/ PopAdvance(t) \/ PopCasSuccess(t)
    \/ PopUnlock(t) \/ PopNotify(t)
    \/ SpuriousWake(t)

SpecSolo == InitSolo /\ [][NextSolo]_vars

\* SpecSeq: the single-threaded test, for every capacity up to the test's and
\* every build of the constructor
InitSeq ==
  /\ InitCommon
  /\ SeqUnused
  /\ TsUnused
  /\ PqUnused
  /\ maxv = MaxVal
  /\ prog = [t \in Threads |-> {}]

NextSeq == SeqConstruct \/ SeqCall

SpecSeq == InitSeq /\ [][NextSeq]_vars

\* no thread uses the bounded queue
BtsUnused ==
  /\ InitCommon
  /\ SeqUnused
  /\ maxv = MaxVal
  /\ prog = [t \in Threads |-> {}]

\* SpecTS: the linked-list queue with two threads that push fresh values and
\* two that poll, each calling whenever it likes
InitTS ==
  /\ BtsUnused
  /\ PqUnused
  /\ TsInitQueue
  /\ trole = [t \in Threads |-> IF t \in {1, 2} THEN "pusher" ELSE "popper"]

NextTS ==
  \E t \in Threads :
    \/ TsCallPush(t) \/ TsCallTryPop(t)
    \/ TsPushStep(t) \/ TsTryPopStep(t)

SpecTS == InitTS /\ [][NextTS]_vars

\* a step of thread t of test_qts.cpp: started threads run to their end
TsThreadSteps(t) ==
  \/ TsPlaceInColl(t)
  \/ TsExtractFirst(t) \/ TsExtractBody(t) \/ TsExtractDone(t)
  \/ TsPushStep(t) \/ TsTryPopStep(t)

\* fair scheduling: a thread that can take a step again and again (a mutex
\* it requests is free again and again) takes it
TsFairness == \A t \in Threads : SF_vars(TsThreadSteps(t))

\* SpecTSTest: main() of test_qts.cpp, three writers and one polling reader,
\* under fair scheduling
InitTSTest ==
  /\ BtsUnused
  /\ PqUnused
  /\ TsInitQueue
  /\ trole = [t \in Threads |-> IF t \in TsWriters THEN "writer" ELSE "reader"]

NextTSTest == \E t \in Threads : TsThreadSteps(t)

SpecTSTest == InitTSTest /\ [][NextTSTest]_vars /\ TsFairness

\* one step of the code of wait_and_pop
TsWaitAndPopStep(t) ==
  \/ TsWaitLock(t) \/ TsGetTailLock(t) \/ TsGetTailRead(t)
  \/ TsGetTailUnlock(t) \/ TsWaitWait(t) \/ TsWaitRelock(t)
  \/ TsPopHead(t) \/ TsPopUnlock(t) \/ TsPopReturn(t)

\* fair scheduling of the threads inside push and wait_and_pop.  Starting a
\* call and waking spuriously are never forced.
TsWaitFairness ==
  \A t \in Threads : SF_vars(TsPushStep(t) \/ TsWaitAndPopStep(t))

\* SpecTSWait: two threads that push fresh values and one that calls
\* wait_and_pop, each calling whenever it likes, under fair scheduling
InitTSWait ==
  /\ BtsUnused
  /\ PqUnused
  /\ TsInitQueue
  /\ trole = [t \in Threads |-> IF t \in {1, 2} THEN "pusher"
                                ELSE IF t = 3 THEN "waiter" ELSE "none"]

NextTSWait ==
  \E t \in Threads :
    \/ TsCallPush(t) \/ TsCallWaitAndPop(t)
    \/ TsPushStep(t) \/ TsWaitAndPopStep(t)
    \/ TsSpuriousWake(t)

SpecTSWait == InitTSWait /\ [][NextTSWait]_vars /\ TsWaitFairness

\* SpecPQ: a priority queue made by the default constructor, then any
\* sequence of push, pop() and pop(value)
InitPQ ==
  /\ BtsUnused
  /\ TsUnused
  /\ PqUnused

NextPQ == PqConstruct \/ PqPush \/ PqPop \/ PqPopInto

SpecPQ == InitPQ /\ [][NextPQ]_vars

\* SpecPQList: a priority queue made from an initializer list, then any
\* sequence of push, pop() and pop(value)
NextPQList == PqConstructList \/ PqPush \/ PqPop \/ PqPopInto

SpecPQList == InitPQ /\ [][NextPQList]_vars

TypeOK ==
  /\ size \in 0..SizeMax
  /\ head \in 0..(Capacity - 1)
  /\ tail \in 0..(Capacity - 1)
  /\ \A m \in {"head", "tail"} : mx[m] \in Threads \cup {NoThread}
  /\ \A c \in {"empty", "full"} : cv[c] \subseteq Threads

\* SpecTSAll: every public operation of QueueTSFG_ side by side: a thread
\* that pushes fresh values, one that calls empty, one that calls try_pop and
\* one that calls wait_and_pop, each calling whenever it likes
InitTSAll ==
  /\ BtsUnused
  /\ PqUnused
  /\ TsInitQueue
  /\ trole = [t \in Threads |-> IF t = 1 THEN "pusher"
                                ELSE IF t = 2 THEN "prober"
                                ELSE IF t = 3 THEN "popper" ELSE "waiter"]

NextTSAll ==
  \E t \in Threads :
    \/ TsCallPush(t) \/ TsCallEmpty(t) \/ TsCallTryPop(t)
    \/ TsCallWaitAndPop(t)
    \/ TsPushStep(t) \/ TsEmptyStep(t) \/ TsTryPopStep(t)
    \/ TsWaitWait(t) \/ TsWaitLock(t) \/ TsWaitRelock(t)
    \/ TsSpuriousWake(t)

SpecTSAll == InitTSAll /\ [][NextTSAll]_vars

\* SpecTry: the run of SpecBulk on the try-based variant: every writer runs
\* writer_task on its share of the TestSize values, every reader runs
\* reader_task on its share of the count, under fair scheduling
PushListTrySteps(t) ==
  \/ CheckForCapaLock(t) \/ CheckForCapaRead(t) \/ PushListTryYield(t)
  \/ PushWrite(t) \/ PushAdvance(t) \/ PushIncSize(t) \/ PushUnlock(t)
  \/ PushListTryNotifyAll(t)

PopListTrySteps(t) ==
  \/ CheckForDataLock(t) \/ GetTailLock(t) \/ GetTailRead(t)
  \/ PopListTryGetTailUnlock(t) \/ PopListTryYield(t)
  \/ PopRead(t) \/ PopAdvance(t) \/ PopCasSuccess(t) \/ PopCasRetry(t)
  \/ PopUnlock(t) \/ PopListTryStore(t)

NextTry ==
  \E t \in Threads :
    \/ CallWriterTaskTry(t) \/ CallReaderTaskTry(t)
    \/ PushListTrySteps(t) \/ PopListTrySteps(t)

\* fair scheduling: every thread that can take a step again and again takes
\* it, the start of its task included
TryFairness ==
  \A t \in Threads :
    SF_vars(CallWriterTaskTry(t) \/ CallReaderTaskTry(t)
              \/ PushListTrySteps(t) \/ PopListTrySteps(t))

SpecTry == InitBulk /\ [][NextTry]_vars /\ TryFairness

\* ------------------------------------------------------------- observers
\* the logical contents of the queue, read off the program's state.  Inside a
\* critical section the slot, the cursor and the counter change one after the
\* other; a slot counts as filled from its write and as vacated from its read.
ProdAhead == \E t \in Threads : pc[t] \in {"push_adv", "push_inc"}
ConsRead  == \E t \in Threads : pc[t] = "pop_adv"
ConsAhead == \E t \in Threads : pc[t] \in {"pop_adv", "pop_cas"}

LiveHead  == IF ConsRead THEN HandleAdvance(head) ELSE head
LiveCount == size + (IF ProdAhead THEN 1 ELSE 0) - (IF ConsAhead THEN 1 ELSE 0)
QueueContents ==
  [k \in 1..LiveCount |-> cont[(LiveHead + k - 1) % Capacity]]

Occurrences(seq, v) == Cardinality({k \in DOMAIN seq : seq[k] = v})

\* a push call holds its value up to the slot write; push_list also holds the
\* elements of work its loop has not reached
BeforeWrite ==
  {"cc_lock", "cc_read", "cc_unlock", "wc_lock", "wc_pred", "wc_wait",
   "wc_sleep", "wc_relock", "push_write"}
AfterRead == {"pop_adv", "pop_cas", "pop_unlock", "pop_notify"}

HeldByProducer(t, v) ==
  (IF op[t] \in PushOps /\ pc[t] \in BeforeWrite /\ value[t] = v THEN 1 ELSE 0)
  + (IF op[t] = "push_list"
       THEN Cardinality({j \in DOMAIN work[t] : j > idx[t] /\ work[t][j] = v})
       ELSE 0)

\* a consumer holds what it has collected, what pop_list has put in work so
\* far, and the value a direct pop has just moved into the caller's variable
HeldByConsumer(t, v) ==
  Occurrences(got[t], v)
  + (IF op[t] = "pop_list" THEN Occurrences(work[t], v) ELSE 0)
  + (IF op[t] \in {"try_pop", "wait_and_pop"} /\ pc[t] \in AfterRead
        /\ valueRef[t] = v THEN 1 ELSE 0)

RECURSIVE SumOver(_, _)
SumOver(S, f) ==
  IF S = {} THEN 0
  ELSE LET t == CHOOSE u \in S : TRUE IN f[t] + SumOver(S \ {t}, f)

WithProducers(v) == SumOver(Threads, [t \in Threads |-> HeldByProducer(t, v)])
Delivered(v)     == SumOver(Threads, [t \in Threads |-> HeldByConsumer(t, v)])
InQueue(v)       == Occurrences(QueueContents, v)

Range(seq) == {seq[k] : k \in DOMAIN seq}
AllIdle == \A t \in Threads : pc[t] = "idle"

\* the mutex a thread is requesting, "none" when it requests none
Wants(t) ==
  CASE pc[t] = "cc_lock" -> CheckForCapaMutex
    [] pc[t] \in {"wc_lock", "wc_relock"} -> WaitForCapaMutex
    [] pc[t] = "cd_lock" -> CheckForDataMutex
    [] pc[t] \in {"wd_lock", "wd_relock"} -> WaitForDataMutex
    [] pc[t] = "gt_lock" -> GetTailMutex
    [] pc[t] = "sz_lock" -> SizeMutex
    [] OTHER -> "none"

Holds(t) == {m \in {"head", "tail"} : mx[m] = t}

\* a thread blocked inside wait() on a condition variable
Asleep(t) == t \in cv["empty"] \cup cv["full"]

\* ------------------------------------------------------------- claims

\* C1: in every reachable state the occupancy counter _size lies in
\* 0..Capacity: no push raises it above the capacity and no pop wraps it
\* below zero, under every interleaving of the six operations.
C1_SizeInRange == size \in 0..Capacity

\* C1 witness: the counter stands at the capacity while a consumer that read
\* a smaller occupancy is about to fail its compare-exchange.
C1_Witness ==
  /\ size = Capacity
  /\ \E t \in Threads : pc[t] = "pop_cas" /\ rs[t] # size
  /\ \E t \in Threads : pc[t] = "cc_unlock"

\* C2: no loss, no duplication, no fabrication.  At every point each value
\* is in at most one place; a value whose push has written it is in the queue
\* or with exactly one consumer, and nowhere else; a value not yet written is
\* only with its producer; the queue and the consumers hold only values that
\* were pushed; when as many values are delivered as were pushed, the
\* delivered values are exactly the pushed ones.
C2_NoLossNoDup ==
  /\ \A v \in 1..maxv :
       /\ WithProducers(v) + InQueue(v) + Delivered(v) <= 1
       /\ v \in Range(pushed) => InQueue(v) + Delivered(v) = 1
       /\ v \notin Range(pushed) => InQueue(v) + Delivered(v) = 0
  /\ \A k \in DOMAIN QueueContents : QueueContents[k] \in Range(pushed)
  /\ \A t \in Threads : Range(got[t]) \subseteq Range(pushed)
  /\ \A v \in Range(pushed) : Occurrences(pushed, v) = 1
  /\ LiveCount = Len(pushed) - Len(popped)
  /\ (AllIdle /\ LiveCount = 0) =>
       \A v \in Range(pushed) :
         SumOver(Threads, [t \in Threads |-> Occurrences(got[t], v)]) = 1

\* C2 witness: every value of the run has been pushed and popped, the pops
\* shared between two consumers, while the queue was driven to its capacity.
C2_Witness ==
  /\ AllIdle
  /\ Len(pushed) = maxv
  /\ Len(popped) = maxv
  /\ Cardinality({t \in Threads : got[t] # <<>>}) >= 2

\* C3: the k-th removal, in the order the consumers hold _mx_head, returns
\* the value of the k-th insertion, in the order the producers hold _mx_tail.
\* (A mutex is held from its acquisition to the slot access, so the order of
\* slot accesses is the order of acquisitions.)
C3_FifoBySlotOrder ==
  /\ Len(popped) <= Len(pushed)
  /\ \A k \in DOMAIN popped : popped[k] = pushed[k]

\* C3 witness: two producers inserted in an order that differs from the order
\* of their calls, and all of it has been removed.
C3_Witness ==
  /\ Len(popped) = maxv
  /\ pushed[1] # 1
  /\ \E t \in Threads : got[t] # <<>> /\ got[t][1] # 1

\* C4: one producer and one consumer: the sequence the consumer has received
\* is a prefix of the sequence the producer has inserted, and equals it when
\* the queue is drained.
C4_SpscOrder ==
  LET c == 2
      received == IF pc[c] \in AfterRead THEN Append(got[c], valueRef[c])
                  ELSE got[c]
  IN  /\ Len(received) <= Len(pushed)
      /\ \A k \in DOMAIN received : received[k] = pushed[k]
      /\ (AllIdle /\ size = 0) => got[c] = pushed

\* C4 witness: more than 2*Capacity values went through, the cursors wrapped
\* at least twice, and try_push was refused in between.
C4_Witness ==
  /\ Len(got[2]) > 2 * Capacity
  /\ got[2] = pushed
  /\ head = tail
  /\ AllIdle

\* every thread other than t is outside any call or blocked in wait(): none
\* of them will signal a condition variable unless its caller starts a new
\* operation
OthersQuiet(t) ==
  \A u \in Threads \ {t} : pc[u] = "idle" \/ Asleep(u)

\* C5: a consumer blocked in wait_and_pop is woken once a push has completed:
\* it is never left blocked on the not-empty condition with an element in the
\* queue and nobody left to signal it (from such a state no step of any
\* operation under way wakes it, so it does not receive the value).
C5_BlockedPopIsWoken ==
  \A c \in Threads :
    ~ ( /\ op[c] = "wait_and_pop"
        /\ c \in cv["empty"]
        /\ size > 0
        /\ \E p \in Threads : p # c /\ ret[p] = "true"
        /\ OthersQuiet(c) )

\* C6: a producer blocked in wait_to_push is woken once a pop has completed:
\* it is never left blocked on the not-full condition with a vacancy in the
\* queue and nobody left to signal it.
C6_BlockedPushIsWoken ==
  \A p \in Threads :
    ~ ( /\ op[p] = "wait_to_push"
        /\ p \in cv["full"]
        /\ size < Capacity
        /\ \E c \in Threads : c # p /\ ret[c] = "true"
        /\ OthersQuiet(p) )

\* a thread of the bulk run whose push_list / pop_list has not returned yet
Unfinished(t) == pc[t] # "idle" \/ prog[t] # {}

\* C7: in the bulk run (the writers' lists total TestSize, the readers'
\* counts total TestSize) no state is reachable in which the unfinished
\* threads are all blocked on a condition variable.
C7_BulkNeverAllBlocked ==
  ~ ( /\ \E t \in Threads : Unfinished(t)
      /\ \A t \in Threads : Unfinished(t) => Asleep(t) )

\* C8: lock discipline.  No thread requests _mx_head while it holds a mutex;
\* a thread requesting _mx_tail holds nothing or _mx_head only; the push
\* operations and size() neither request nor hold _mx_head; no two threads
\* wait for each other's mutexes, and none waits for its own.
C8_LockDiscipline ==
  \A t \in Threads :
    /\ Wants(t) = "head" => Holds(t) = {}
    /\ Wants(t) = "tail" => Holds(t) \subseteq {"head"}
    /\ op[t] \in PushOps \cup {"size"} => Wants(t) # "head" /\ mx["head"] # t
    /\ Asleep(t) => Holds(t) = {}
    /\ \A u \in Threads :
         ~ ( /\ Wants(t) # "none" /\ Wants(u) # "none"
             /\ mx[Wants(t)] = u /\ mx[Wants(u)] = t )

\* C8 witness: a consumer holds _mx_head and requests _mx_tail, which a
\* producer holds: the one nested acquisition, under contention.
C8_Witness ==
  \E t, u \in Threads :
    /\ Wants(t) = "tail" /\ mx["head"] = t
    /\ mx["tail"] = u /\ op[u] \in PushOps

\* the queue's state a refused call must leave alone
mutableVars == <<cont, size, head, tail, cv>>

\* C9: try_push reads the occupancy while it holds the insertion lock; it
\* returns false exactly when the occupancy it read equals Capacity and true
\* otherwise; a call that returns false has only locked, read and unlocked,
\* and none of these steps changes a cursor, a slot, the counter or the
\* waiters of a condition variable.
C9_TryPushRefusal ==
  [][ \A t \in Threads :
        (op[t] = "try_push" /\ pc'[t] # pc[t]) =>
          /\ pc'[t] = "cc_read" => mx'[CheckForCapaMutex] = t
          /\ op'[t] = "none" =>
               /\ ret'[t] \in {"true", "false"}
               /\ ret'[t] = "false" <=> ws[t] = Capacity
               /\ ret'[t] = "false" => pc[t] = "cc_unlock"
          /\ pc[t] \in {"cc_lock", "cc_read", "cc_unlock"} =>
               UNCHANGED mutableVars
          /\ pc'[t] = "cc_unlock" => ws'[t] = Capacity /\ size = Capacity
    ]_vars

\* C9 witness: a try_push that read occupancy = Capacity is about to return
\* false, while a consumer is in the middle of a pop.
C9_Witness ==
  \E t \in Threads :
    /\ op[t] = "try_push" /\ pc[t] = "cc_unlock" /\ ws[t] = Capacity
    /\ \E u \in Threads : pc[u] = "pop_cas"

\* C10: try_pop reads the occupancy while it holds the insertion lock inside
\* the removal lock; it returns false exactly when the occupancy it read is
\* 0 and true otherwise; a call that returns false has only locked, read and
\* unlocked, and none of these steps changes a cursor, a slot, the counter,
\* the caller's value or the waiters of a condition variable.
C10_TryPopRefusal ==
  [][ \A t \in Threads :
        (op[t] = "try_pop" /\ pc'[t] # pc[t]) =>
          /\ pc'[t] = "gt_read" => mx'["head"] = t /\ mx'["tail"] = t
          /\ op'[t] = "none" =>
               /\ ret'[t] \in {"true", "false"}
               /\ ret'[t] = "false" <=> ws[t] = 0
               /\ ret'[t] = "false" => pc[t] = "cd_unlock"
          /\ pc[t] \in {"cd_lock", "gt_lock", "gt_read", "gt_unlock",
                        "cd_unlock"} =>
               UNCHANGED mutableVars /\ valueRef'[t] = valueRef[t]
          /\ pc'[t] = "cd_unlock" => ws'[t] = 0
    ]_vars

\* C10 witness: a try_pop that read occupancy 0 is about to return false; its
\* caller's variable still holds the value of an earlier pop, and a producer
\* is in the middle of a push.
C10_Witness ==
  \E t \in Threads :
    /\ op[t] = "try_pop" /\ pc[t] = "cd_unlock" /\ ws[t] = 0
    /\ valueRef[t] # DefaultT
    /\ \E u \in Threads : pc[u] = "push_inc"

\* ------------------------------------------------------------- one caller: claims
\* the k of the script under way: its length is 2*capacity + 2*k + 2
ScriptK == (Len(sscript) - 2 * sq.capacity - 2) \div 2

\* the results of the try_pop calls made so far, in order
PopResults == SelectSeq([i \in 1..Len(sres) |->
                           [ret |-> sres[i].ret, value |-> sres[i].value,
                            op |-> sscript[i].op]],
                        LAMBDA r : r.op = "try_pop")
PushResults == SelectSeq([i \in 1..Len(sres) |->
                            [ret |-> sres[i].ret, op |-> sscript[i].op]],
                         LAMBDA r : r.op = "try_push")

\* C11: the sequential wraparound scenario (capacity 5, three pops in the
\* middle, and every smaller capacity and other number of pops alike):
\* pushing 0..cap-1 succeeds and fills the queue, one more try_push returns
\* false, k pops yield 0..k-1, pushing 0..k-1 succeeds and fills the queue
\* again, cap pops yield k..cap-1 followed by 0..k-1, and a further try_pop
\* fails.
C11_WraparoundScenario ==
  (sq.state = "built" /\ sstep > 0) =>
    LET cap == sq.capacity
        k   == ScriptK
    IN  /\ \A i \in 1..Len(PushResults) :
             PushResults[i].ret = (i # cap + 1)
        /\ \A i \in 1..Len(PopResults) :
             /\ PopResults[i].ret = (i # k + cap + 1)
             /\ i <= k + cap => PopResults[i].value = (i - 1) % cap
        /\ sstep \in {cap, cap + 1, cap + 1 + 2 * k} => sq.size = cap
        /\ sstep = Len(sscript) => sq.size = 0

C11_Witness ==
  /\ sq.state = "built" /\ sq.capacity = TestCapacity
  /\ sstep = Len(sscript)
  /\ [i \in 1..Len(PopResults) |-> PopResults[i].value]
       = <<0, 1, 2, 3, 4, 0, 1, 2, 2>>
  /\ [i \in 1..Len(PushResults) |-> PushResults[i].ret]
       = <<TRUE, TRUE, TRUE, TRUE, TRUE, FALSE, TRUE, TRUE, TRUE>>
  /\ ~PopResults[9].ret

\* the values the next n try_pop calls return, in order
RECURSIVE NextPops(_, _)
NextPops(q, n) ==
  IF n = 0 THEN <<>>
  ELSE <<SeqTryPop(q, DefaultT).value>>
         \o NextPops(SeqTryPop(q, DefaultT).q, n - 1)

\* C12: the dump of a quiescent queue lists exactly the values the next
\* `occupancy` pops return, in that order, beginning with the element at
\* _head.
C12_DumpIsFifo ==
  (sq.state = "built" /\ sres # <<>>) =>
    sres[Len(sres)].dump = NextPops(sq, sq.size)

\* C13: a capacity below 2 never yields an instance whose validity flag is
\* true; a capacity of 2 or more, with the allocation succeeding, yields a
\* valid empty queue with both cursors at slot 0.
C13_SmallCapacityUnusable ==
  /\ ~(sq.state = "built" /\ sq.capacity < 2 /\ sq.isOK)
  /\ (sq.state = "built" /\ sq.capacity >= 2 /\ sstep = 0
        /\ DOMAIN sq.cont = 0..(sq.capacity - 1)) =>
       (sq.isOK /\ sq.size = 0 /\ sq.head = 0 /\ sq.tail = 0)

C15_WaitOpsActOnPredicate ==
  \A t \in Threads :
    /\ (op[t] \in {"wait_to_push", "push_list"}
          /\ pc[t] \in {"push_write", "push_adv", "push_inc"})
         => size < Capacity
    /\ (op[t] \in {"wait_and_pop", "pop_list"}
          /\ pc[t] \in {"pop_read", "pop_adv", "pop_cas"})
         => size > 0 /\ size <= Capacity
    /\ (op[t] \in {"wait_and_pop", "pop_list"}
          /\ pc[t] = "gt_unlock" /\ ws[t] > 0)
         => size > 0

\* a consumer about to move out the only element while another consumer,
\* woken as well, is on its way back to the predicate
C15_Witness ==
  \E t, u \in Threads :
    /\ t # u
    /\ op[t] = "wait_and_pop" /\ pc[t] = "pop_read" /\ size = 1
    /\ op[u] = "wait_and_pop" /\ pc[u] = "wd_relock"

\* the elements of seq that are values of the list w, in the order of seq
Restrict(seq, w) == SelectSeq(seq, LAMBDA v : v \in Range(w))

\* how many elements of its list a push_list call has written into slots
Written(t) == IF pc[t] \in BeforeWrite THEN idx[t] - 1 ELSE idx[t]

IsPrefix(a, b) == Len(a) <= Len(b) /\ a = SubSeq(b, 1, Len(a))

\* C16: push_list inserts every element of its input exactly once and in
\* input order: at every point of a push_list call, the values of its list
\* that are in the global insertion order are the elements the loop has
\* reached, each once, in the order of the list, whatever other producers
\* insert in between; just before the call returns these are all of the list.
\* The removal order keeps that relative order.
C16_PushListInOrder ==
  \A t \in Threads :
    op[t] = "push_list" =>
      /\ Restrict(pushed, work[t]) = SubSeq(work[t], 1, Written(t))
      /\ pc[t] = "push_notify" /\ ~MorePush(t)
           => Restrict(pushed, work[t]) = work[t]
      /\ IsPrefix(Restrict(popped, work[t]), work[t])

\* a push_list call has inserted its two elements with another producer's
\* value between them, and all three have been removed
C16_Witness ==
  \E t \in Threads :
    /\ op[t] = "push_list" /\ pc[t] = "push_notify"
    /\ Len(work[t]) = 2 /\ idx[t] = 2
    /\ Len(pushed) = 3 /\ Len(popped) = 3
    /\ pushed[1] = work[t][1] /\ pushed[3] = work[t][2]
    /\ pushed[2] \notin Range(work[t])

\* how many elements a pop_list call has moved out of slots
Removed(t) == IF pc[t] \in AfterRead THEN idx[t] ELSE idx[t] - 1

\* C17: pop_list(count) returns only after exactly count removals, with a
\* sequence of length count whose i-th entry is the i-th value the call
\* removed; pop_list(0) returns at once, an empty sequence, the queue
\* unchanged.
C17_PopListExactCount ==
  [][\A t \in Threads :
       /\ op[t] = "pop_list" =>
            /\ Len(work[t]) >= 1 /\ Removed(t) \in 0..Len(work[t])
            /\ Restrict(popped, SubSeq(work[t], 1, Removed(t)))
                 = SubSeq(work[t], 1, Removed(t))
            /\ \A i \in (Removed(t) + 1)..Len(work[t]) :
                 work[t][i] = DefaultT
       /\ (op[t] = "pop_list" /\ pc[t] = "pop_read" /\ pc'[t] # pc[t]) =>
            /\ work'[t] = [work[t] EXCEPT ![idx[t]] = cont[head]]
            /\ popped' = Append(popped, cont[head])
            /\ Removed(t)' = Removed(t) + 1
       /\ (op[t] = "pop_list" /\ op'[t] # "pop_list") =>
            /\ Removed(t) = Len(work[t])
            /\ ret'[t] = "work"
            /\ got'[t] = got[t] \o work[t]
       /\ (pc[t] = "idle" /\ pc'[t] = "idle" /\ ret'[t] = "work"
             /\ ret[t] # "work") =>
            UNCHANGED <<queueVars, mx, cv, got, histVars>>
  ]_vars

\* a pop_list(2) about to return its two values, another consumer having
\* removed a value between them
C17_Witness ==
  \E t \in Threads :
    /\ op[t] = "pop_list" /\ pc[t] = "pop_notify"
    /\ idx[t] = 2 /\ Len(work[t]) = 2
    /\ Len(popped) = 3
    /\ work[t] = <<popped[1], popped[3]>>

\* the positions of a wait_to_push between its entry and its slot write
WaitingForCapa == {"wc_lock", "wc_pred", "wc_wait", "wc_sleep", "wc_relock"}

\* no thread but t pops or will pop
NoConsumerBut(t) ==
  \A u \in Threads \ {t} : op[u] \notin PopOps /\ prog[u] \cap PopOps = {}

\* t is the only thread that calls the queue
Alone(t) == \A u \in Threads \ {t} : prog[u] = {} /\ pc[u] = "idle"

\* thread t is inside a wait_to_push (its own or push_list's), has not got
\* past the predicate, the queue is full and no other thread pops
StuckPushing(t) ==
  /\ op[t] \in {"wait_to_push", "push_list"}
  /\ pc[t] \in WaitingForCapa
  /\ size = Capacity
  /\ NoConsumerBut(t)

\* C18: wait_to_push on a full queue with no consumer never returns and never
\* changes the queue: once a caller is in that situation it stays in it, and
\* no step changes the storage, the cursors or the counter.  A push_list by
\* the only thread that has blocked leaves the queue full, holding what was
\* in it before the call followed by the first elements of the list, as many
\* as there were vacancies, in order.
C18_PushWithoutConsumerBlocks ==
  [][\A t \in Threads :
       /\ StuckPushing(t) =>
            /\ StuckPushing(t)'
            /\ op'[t] = op[t]
            /\ UNCHANGED <<queueVars, pushed, popped>>
            /\ work'[t] = work[t] /\ idx'[t] = idx[t]
       /\ (op[t] = "push_list" /\ Alone(t) /\ t \in cv["full"]) =>
            LET done == SubSeq(work[t], 1, idx[t] - 1)
                prev == SelectSeq(pushed, LAMBDA v : /\ v \notin Range(work[t])
                                                     /\ v \notin Range(popped))
            IN  /\ size = Capacity
                /\ QueueContents = prev \o done
                /\ Len(done) = Capacity - Len(prev)
                /\ Len(done) < Len(work[t])
  ]_vars

\* the single-threaded sequence push_list, pop_list, push_list: the second
\* push_list sleeps on the not-full condition with part of its list inserted
C18_Witness ==
  \E t \in Threads :
    /\ op[t] = "push_list" /\ Alone(t) /\ t \in cv["full"]
    /\ Len(popped) >= 1
    /\ idx[t] >= 2
    /\ Len(pushed) = Len(popped) + Capacity

\* the queue is empty: the head node is the tail dummy node
TsEmpty == thead = ttail

\* thread t holds a node it has taken off the head and not yet returned
TsHolding(t) == tpos[t] \in {"pop_unlock", "pop_ret"}

\* C19: QueueTSFG_::try_pop returns null exactly when its check found the
\* head node to be the tail dummy node; otherwise it removes and returns the
\* oldest value not yet popped, so that values leave in the order in which
\* their pushes held the tail lock; push always returns true.
C19_TryPopOldestPushSucceeds ==
  [][ /\ \A k \in 1..Len(tpopped) :
             k <= Len(tpushed) /\ tpopped[k] = <<tpushed[k]>>
      /\ \A t \in Threads :
           /\ (tpos[t] = "t_unlock" /\ tpos'[t] /= "t_unlock")
                => (tpos'[t] = "c_fail" <=> TsEmpty)
           /\ (top[t] = "try_pop" /\ top'[t] = "none")
                => /\ tret'[t] = "null" <=> tpos[t] = "c_fail"
                   /\ tpos[t] /= "c_fail"
                        => tret'[t] = "data" /\ tdata'[t] = tnodes[tcur[t]].data
           /\ (tpos[t] = "pop_head" /\ tpos'[t] /= "pop_head")
                => /\ Len(tpopped) < Len(tpushed)
                   /\ tpopped' = Append(tpopped, <<tpushed[Len(tpopped) + 1]>>)
                   /\ tnodes'[tcur'[t]].data = <<tpushed[Len(tpopped) + 1]>>
           /\ (TsHolding(t) /\ TsHolding(t)')
                => tnodes'[tcur[t]].data = tnodes[tcur[t]].data
           /\ (top[t] = "push" /\ top'[t] = "none") => tret'[t] = "true"
    ]_vars

\* C19 witness: pushes of two threads took the tail lock in another order
\* than they were called, one poll found the queue empty and returned null,
\* the other returned the second value pushed
C19_Witness ==
  /\ Len(tpushed) >= 2 /\ tpushed[1] > tpushed[2]
  /\ \E t, u \in Threads :
       /\ tret[t] = "null"
       /\ tret[u] = "data" /\ tdata[u] = <<tpushed[2]>>
  /\ \E w \in Threads : tret[w] = "true"

\* extract_from_coll has returned
TsReaderDone(r) == tpos[r] = "done"

TsValueWaiting == Len(tpushed) > Len(tpopped)

\* C21: a thread inside QueueTSFG_::wait_and_pop returns a value once a value
\* has been pushed that nobody else takes, under fair scheduling, however
\* push's tail update and notify_one fall between the waiter's predicate
\* check and its going to sleep; it never returns without a value.
C21_WaitAndPopReturns ==
  /\ \A t \in Threads :
       (top[t] = "wait_and_pop" /\ TsValueWaiting) ~> (top[t] = "none")
  /\ [][\A t \in Threads :
          (top[t] = "wait_and_pop" /\ top'[t] = "none")
            => tret'[t] = "data" /\ tdata'[t] /= <<>>]_vars

\* sequence s without the first entry equal to v
RECURSIVE RemoveOne(_, _)
RemoveOne(s, v) ==
  IF s = <<>> THEN <<>>
  ELSE IF Head(s) = v THEN Tail(s)
  ELSE <<Head(s)>> \o RemoveOne(Tail(s), v)

\* sequence s without the entries of t, one for one
RECURSIVE Minus(_, _)
Minus(s, t) == IF t = <<>> THEN s ELSE Minus(RemoveOne(s, Head(t)), Tail(t))

\* v put into the ordered sequence s
RECURSIVE InsertInOrder(_, _, _)
InsertInOrder(s, v, comp) ==
  IF s = <<>> THEN <<v>>
  ELSE IF PqComp(comp, Head(s), v)
         THEN <<Head(s)>> \o InsertInOrder(Tail(s), v, comp)
  ELSE <<v>> \o s

\* the entries of s in comparator order
RECURSIVE InOrder(_, _)
InOrder(s, comp) ==
  IF s = <<>> THEN <<>>
  ELSE InsertInOrder(InOrder(Tail(s), comp), Head(s), comp)

\* the elements the queue was given and has not handed out
PqStored == Minus(pin, pout)

\* C22: a PQueue_ built by push() calls only: in every state, whatever pushes
\* and pops came before, the pops still to come return the stored elements in
\* comparator order (std::less: non-decreasing, std::greater: non-increasing),
\* each pushed element exactly once, duplicates included; peek() is the value
\* the next pop() returns.
C22_PushedElementsPopInOrder ==
  (plast.op \in {"default", "push", "pop", "pop_into"} /\ pq.isOK) =>
     /\ Len(PqStored) = Len(pin) - Len(pout)
     /\ CollectionFromPQ(pq, pcomp) = InOrder(PqStored, pcomp)
     /\ PqStored /= <<>> =>
          /\ Peek(pq) = Head(InOrder(PqStored, pcomp))
          /\ Pop(pq, pcomp).ret = <<Peek(pq)>>

\* C22 witness: the most pushes of a run, with a duplicate and not in order,
\* two pops among them, under std::greater
C22_Witness ==
  /\ plast.op = "pop" /\ plast.ret /= <<>> /\ pcomp = "greater"
  /\ Len(pin) = PqMaxLen /\ Len(pout) = 2
  /\ \E i, j \in DOMAIN pin : i < j /\ pin[i] = pin[j]
  /\ pin /= InOrder(pin, pcomp)
  /\ pout[1] < pout[2]

\* C23: a PQueue_ made from an initializer list, for every list in any order:
\* the pops (collection_from_PQ) return exactly the list's elements in
\* comparator order.
C23_ListConstructorBuildsHeap ==
  (plast.op = "list" /\ plast.alloc) =>
     CollectionFromPQ(pq, pcomp) = InOrder(plast.arg, pcomp)

\* C24: on an empty PQueue_, pop() returns the empty optional and pop(value)
\* leaves value as it was; size() stays 0, the padding element stays at
\* position 0 and the queue stays OK.
C24_PopOnEmpty ==
  [][ /\ (PqUsable /\ PqSize(pq.cont) = 0 /\ plast'.op \in {"pop", "pop_into"})
           => /\ plast'.op = "pop" => plast'.ret = <<>>
              /\ plast'.op = "pop_into" => plast'.value = plast'.arg[1]
              /\ PqSize(pq'.cont) = 0
              /\ pq'.cont = pq.cont
              /\ pq'.isOK
              /\ pout' = pout
      /\ PqUsable => (Len(pq.cont) >= 1 /\ pq.cont[1] = DefaultT)
    ]_vars

\* C24 witness: pop(value) on a queue that pushes filled and pops emptied,
\* value other than the padding
C24_Witness ==
  /\ plast.op = "pop_into" /\ plast.arg = <<PqMaxVal>> /\ plast.value = PqMaxVal
  /\ Len(pin) >= 2 /\ Len(pout) = Len(pin)
  /\ pq.cont = <<DefaultT>> /\ pq.isOK

\* ------------------------------------------------------------- claims, part 3
\* thread t is about to write the slot at _tail / to move out the slot at _head
WritingSlot(t) == pc[t] = "push_write"
ReadingSlot(t) == pc[t] = "pop_read"

\* C25: slot exclusivity.  A thread writes a slot only while it holds
\* _mx_tail and moves a slot out only while it holds _mx_head, and never is
\* one thread writing the slot another is moving out, equal cursors included.
C25_SlotExclusivity ==
  \A t \in Threads :
    /\ WritingSlot(t) => mx["tail"] = t
    /\ ReadingSlot(t) => mx["head"] = t
    /\ \A u \in Threads : ~(WritingSlot(t) /\ ReadingSlot(u) /\ tail = head)

\* C25 witness: a producer writes one slot while a consumer moves out the
\* other, after an earlier pop
C25_Witness ==
  \E t, u \in Threads :
    /\ WritingSlot(t) /\ ReadingSlot(u)
    /\ tail /= head
    /\ Len(popped) >= 1

\* the abstract sequential queue: a push takes effect at ++_size, a pop at
\* its successful compare-exchange
AbsPushed == Len(pushed) - (IF ProdAhead THEN 1 ELSE 0)
AbsPopped == Len(popped) - (IF ConsAhead THEN 1 ELSE 0)
AbsQueue  == SubSeq(pushed, AbsPopped + 1, AbsPushed)

\* the steps at which the operations of thread t take effect
PushEffect(t) == pc[t] = "push_inc" /\ pc'[t] = "push_unlock"
PopEffect(t)  == pc[t] = "pop_cas" /\ pc'[t] = "pop_unlock"
TryPushFails(t) == pc[t] = "cc_read" /\ pc'[t] = "cc_unlock"
TryPopFails(t) ==
  /\ op[t] = "try_pop" /\ pc[t] = "gt_read" /\ pc'[t] = "gt_unlock"
  /\ ~HasData(ws'[t])

\* C26: QueueBTS_ refines the sequential bounded FIFO queue of capacity
\* Capacity.  _size is the abstract queue's length in every state; ++_size
\* appends the value just written to a queue that is not full; the
\* successful compare-exchange removes the abstract head, which is the value
\* the consumer moved out; a try_push fails at a read of a full abstract
\* queue and a try_pop at a read of an empty one; no other step changes the
\* abstract queue; a call returns true exactly when it took effect.
C26_RefinesSequentialQueue ==
  [][ /\ size = Len(AbsQueue) /\ size' = Len(AbsQueue')
      /\ Len(AbsQueue) <= Capacity
      /\ \A t \in Threads :
           /\ PushEffect(t) =>
                /\ Len(AbsQueue) < Capacity
                /\ AbsQueue' = Append(AbsQueue, pushed[Len(pushed)])
           /\ PopEffect(t) =>
                /\ AbsQueue /= <<>>
                /\ AbsQueue' = Tail(AbsQueue)
                /\ popped[Len(popped)] = Head(AbsQueue)
           /\ TryPushFails(t) => Len(AbsQueue) = Capacity
           /\ TryPopFails(t) => AbsQueue = <<>>
           /\ (op[t] \in {"try_push", "try_pop"} /\ op'[t] = "none") =>
                (ret'[t] = "true" <=> pc[t] \in {"push_notify", "pop_notify"})
      /\ (\A t \in Threads : ~PushEffect(t) /\ ~PopEffect(t))
           => AbsQueue' = AbsQueue
    ]_vars

\* C26 witness: a producer and a consumer both between their slot access and
\* their effect, the abstract queue holding a value pushed after a pop
C26_Witness ==
  /\ ProdAhead /\ ConsAhead
  /\ AbsQueue /= <<>> /\ AbsPopped >= 1
  /\ size = Len(AbsQueue)

\* no thread is inside the lock block of a push or of a pop
PushPcs == {"push_write", "push_adv", "push_inc", "push_unlock"}
PopPcs  == {"pop_read", "pop_adv", "pop_cas", "pop_unlock"}
Quiescent == \A t \in Threads : pc[t] \notin PushPcs \cup PopPcs

\* C27: counter exactness.  The successful compare-exchange of a pop lowers
\* _size by exactly one, also when producers have raised it since the
\* consumer read it, and an increment raises it by exactly one; outside the
\* lock blocks _size is the number of pushes minus the number of pops.
C27_CounterExact ==
  [][ /\ Quiescent => size = Len(pushed) - Len(popped)
      /\ Quiescent' => size' = Len(pushed') - Len(popped')
      /\ \A t \in Threads :
           /\ PopEffect(t) => size' = size - 1
           /\ PushEffect(t) => size' = size + 1
      /\ (\A t \in Threads : ~PushEffect(t) /\ ~PopEffect(t)) => size' = size
    ]_vars

\* C27 witness: a compare-exchange has succeeded after a failure: the
\* consumer installed one less than a value other than the one it had read
C27_Witness ==
  \E t \in Threads :
    /\ pc[t] = "pop_unlock"
    /\ rs[t] > ws[t]
    /\ size = rs[t] - 1

\* C28: the retry loop of one pop.  The occupancy the consumer read at its
\* check is at least 1; every failed compare-exchange loads rs with a larger
\* value, at most Capacity, so that the loop fails at most Capacity - rs
\* times; the value installed is not below 0.
C28_CasLoopBounded ==
  [][\A t \in Threads :
       /\ pc[t] \in PopPcs => (ws[t] >= 1 /\ ws[t] <= Capacity)
       /\ pc[t] \in {"pop_adv", "pop_cas"} =>
            /\ rs[t] >= ws[t] /\ rs[t] <= Capacity
            /\ ns[t] = rs[t] - 1 /\ ns[t] >= 0
       /\ (pc[t] = "pop_cas" /\ pc'[t] = "pop_cas" /\ rs'[t] /= rs[t]) =>
            /\ rs'[t] > rs[t]
            /\ rs'[t] <= Capacity
            /\ rs'[t] - ws[t] <= Capacity - ws[t]
       /\ PopEffect(t) => (size' >= 0 /\ size' < Capacity)
    ]_vars

\* C28 witness: the loop has failed as often as it can: the consumer read 1
\* and rs has reached Capacity
C28_Witness ==
  \E t \in Threads :
    /\ pc[t] = "pop_cas"
    /\ ws[t] = 1 /\ rs[t] = Capacity

\* the slots from the removal cursor up to the insertion cursor
SlotsInOrder == [k \in 1..size |-> cont[(head + k - 1) % Capacity]]

\* C29: cursor/occupancy consistency.  Outside the lock blocks the insertion
\* cursor is (removal cursor + _size) mod Capacity, the cursors are equal
\* only when _size is 0 or Capacity, and the slots from the removal cursor on
\* hold the values not yet popped, in insertion order.
C29_CursorsAndOccupancy ==
  Quiescent =>
    /\ tail = (head + size) % Capacity
    /\ head = tail => size \in {0, Capacity}
    /\ size \in 0..Capacity
    /\ SlotsInOrder = SubSeq(pushed, Len(popped) + 1, Len(pushed))

\* C29 witness: a full queue at rest whose cursors have wrapped to the same
\* slot other than 0
C29_Witness ==
  /\ Quiescent
  /\ size = Capacity /\ head = tail /\ head /= 0
  /\ Len(popped) >= 1

\* what a signal on condition variable c by thread t does: one blocked
\* thread, if there is one, leaves the block; the other condition variable
\* is left alone
Signals(t, c, other, relock) ==
  /\ cv'[other] = cv[other]
  /\ \/ cv[c] = {} /\ cv'[c] = {}
     \/ \E w \in cv[c] : cv'[c] = cv[c] \ {w} /\ pc'[w] = relock

\* C30: signal protocol.  A successful try_push / wait_to_push increments
\* _size, releases _mx_tail and then signals _cv_empty once, as its last
\* step; a successful try_pop / wait_and_pop decrements, releases _mx_head
\* and then signals _cv_full once; the signalling thread holds no mutex; a
\* failing call signals nothing.
C30_SignalProtocol ==
  [][\A t \in Threads :
       /\ pc[t] \in {"push_notify", "pop_notify"} => Holds(t) = {}
       /\ (pc[t] /= "push_notify" /\ pc'[t] = "push_notify") =>
            /\ pc[t] = "push_unlock"
            /\ mx["tail"] = t /\ mx'["tail"] = NoThread
       /\ (pc[t] /= "push_unlock" /\ pc'[t] = "push_unlock") =>
            /\ pc[t] = "push_inc" /\ size' = size + 1
       /\ (pc[t] /= "pop_notify" /\ pc'[t] = "pop_notify") =>
            /\ pc[t] = "pop_unlock"
            /\ mx["head"] = t /\ mx'["head"] = NoThread
       /\ (pc[t] /= "pop_unlock" /\ pc'[t] = "pop_unlock") =>
            /\ pc[t] = "pop_cas" /\ size' = size - 1
       /\ (op[t] \in {"try_push", "wait_to_push"} /\ op'[t] = "none") =>
            IF ret'[t] = "true"
              THEN /\ pc[t] = "push_notify"
                   /\ Signals(t, "empty", "full", "wd_relock")
              ELSE cv' = cv
       /\ (op[t] \in {"try_pop", "wait_and_pop"} /\ op'[t] = "none") =>
            IF ret'[t] = "true"
              THEN /\ pc[t] = "pop_notify"
                   /\ Signals(t, "full", "empty", "wc_relock")
              ELSE cv' = cv
       /\ (pc[t] = "push_notify" /\ pc'[t] /= "push_notify") =>
            Signals(t, "empty", "full", "wd_relock")
       /\ (pc[t] = "pop_notify" /\ pc'[t] /= "pop_notify") =>
            Signals(t, "full", "empty", "wc_relock")
  ]_vars

\* C30 witness: a producer that has released _mx_tail is about to signal
\* while a consumer is blocked on _cv_empty and another thread holds
\* _mx_tail
C30_Witness ==
  \E t \in Threads :
    /\ pc[t] = "push_notify" /\ op[t] \in {"try_push", "wait_to_push"}
    /\ cv["empty"] /= {}
    /\ Holds(t) = {}
    /\ mx["tail"] \notin {t, NoThread}

\* ------------------------------------------------------------- claims, part 4
\* thread t takes a step
Steps(t) == pc'[t] /= pc[t]

\* C31: cursor arithmetic.  _head and _tail stay within 0..Capacity-1; _tail
\* changes only in the _push_protected_tail of a push, _head only in the
\* _pop_protected_head of a pop, each time to (cursor + 1) mod Capacity,
\* from Capacity-1 to 0; no step of a push moves _head and no step of a pop
\* moves _tail.
C31_CursorArithmetic ==
  [][ /\ head \in 0..(Capacity - 1) /\ tail \in 0..(Capacity - 1)
      /\ head' \in 0..(Capacity - 1) /\ tail' \in 0..(Capacity - 1)
      /\ tail' /= tail =>
           \E t \in Threads : /\ pc[t] = "push_adv" /\ pc'[t] = "push_inc"
                              /\ op[t] \in PushOps
      /\ head' /= head =>
           \E t \in Threads : /\ pc[t] = "pop_adv" /\ pc'[t] = "pop_cas"
                              /\ op[t] \in PopOps
      /\ \A t \in Threads :
           /\ (pc[t] = "push_adv" /\ Steps(t)) =>
                /\ tail' = (tail + 1) % Capacity
                /\ (tail = Capacity - 1 => tail' = 0)
           /\ (pc[t] = "pop_adv" /\ Steps(t)) =>
                /\ head' = (head + 1) % Capacity
                /\ (head = Capacity - 1 => head' = 0)
           /\ (op[t] \in PushOps /\ Steps(t)) => head' = head
           /\ (op[t] \in PopOps /\ Steps(t)) => tail' = tail
    ]_vars

\* C31 witness: a push has just wrapped _tail from Capacity-1 to 0 while
\* _head is at Capacity-1
C31_Witness ==
  \E t \in Threads :
    /\ pc[t] = "push_inc"
    /\ tail = 0 /\ head = Capacity - 1
    /\ Len(pushed) >= Capacity

\* thread t is inside a bulk call
InBulk(t) == op[t] \in {"push_list", "pop_list"}

\* C32: push_list and pop_list are not atomic.  Each element of the list is
\* one wait_to_push / wait_and_pop with a lock block of its own: the call
\* owns no queue mutex when it starts an element, it takes its mutex only at
\* the start of an element or on leaving a wait, it gives the mutex up after
\* every element and goes on to the next element without it until the list
\* is exhausted.  Other threads' pushes and pops fall between the elements.
C32_BulkNotAtomic ==
  [][\A t \in Threads :
       /\ (InBulk(t) /\ pc[t] \in {"wc_lock", "wd_lock"}) => Holds(t) = {}
       /\ (InBulk(t) /\ Holds(t) = {} /\ Holds(t)' /= {}) =>
            pc[t] \in {"wc_lock", "wc_relock", "wd_lock", "wd_relock"}
       /\ (InBulk(t) /\ pc[t] \in {"push_unlock", "pop_unlock"} /\ Steps(t))
            => Holds(t)' = {}
       /\ (op[t] = "push_list" /\ pc[t] = "push_notify" /\ Steps(t)) =>
            IF idx[t] < Len(work[t])
              THEN /\ op'[t] = "push_list" /\ pc'[t] = "wc_lock"
                   /\ idx'[t] = idx[t] + 1
                   /\ Holds(t)' = {}
              ELSE op'[t] = "none" /\ ret'[t] = "true"
       /\ (op[t] = "pop_list" /\ pc[t] = "pop_notify" /\ Steps(t)) =>
            IF idx[t] < Len(work[t])
              THEN /\ op'[t] = "pop_list" /\ pc'[t] = "wd_lock"
                   /\ idx'[t] = idx[t] + 1
                   /\ Holds(t)' = {}
              ELSE op'[t] = "none" /\ ret'[t] = "work"
  ]_vars

\* C32 witness: a pop_list call in progress has removed the first element
\* of a push_list call whose second element is not yet written, and another
\* push_list call's element is in the queue, between the two
C32_Witness ==
  \E t, u, c \in Threads :
    /\ t /= u
    /\ op[t] = "push_list" /\ Len(work[t]) >= 2
    /\ Written(t) = 1 /\ pc[t] \in BeforeWrite
    /\ op[c] = "pop_list" /\ Len(work[c]) >= 2 /\ Removed(c) = 1
    /\ work[c][1] = work[t][1]
    /\ Len(pushed) = 2 /\ pushed[1] = work[t][1]
    /\ pushed[2] \notin Range(work[t])
    /\ QueueContents = <<pushed[2]>>
    /\ u \in Writers /\ prog[u] = {}
    /\ pc[u] \in {"push_unlock", "push_notify", "idle"}

\* every task of the run has been started and has returned
AllReturned == \A t \in Threads : prog[t] = {} /\ pc[t] = "idle"

\* the values the run pushes, and how often the readers' results hold v
BulkInput == UNION {Range(WriterInput(t)) : t \in Writers}
InResults(v) == SumOver(Readers, [t \in Readers |-> Occurrences(got[t], v)])

\* the multiset popped is the multiset pushed, which is the writers' input
SamePushedPopped ==
  /\ Len(pushed) = TestSize /\ Len(popped) = TestSize
  /\ \A v \in BulkInput \cup Range(pushed) \cup Range(popped) :
       /\ Occurrences(pushed, v) = 1
       /\ Occurrences(popped, v) = 1
       /\ InResults(v) = 1
  /\ size = 0 /\ head = tail

TsHolds(t) == {m \in {"head", "tail"} : tmx[m] = t}
TsWants(t) ==
  IF tpos[t] \in {"c_lock", "w_lock", "w_relock", "e_lock"} THEN {"head"}
  ELSE IF tpos[t] \in {"p_lock", "t_lock", "e_tail"} THEN {"tail"}
  ELSE {}

\* thread t is kept waiting by thread u
TsWaitsFor(t, u) == \E m \in TsWants(t) : tmx[m] = u /\ u /= t

\* C34: the lock order of QueueTSFG_.  _mx_tail is taken either by push,
\* which owns no other mutex, or inside _mx_head by empty, try_pop and
\* wait_and_pop; no thread asks for _mx_head while it owns _mx_tail; push
\* never owns _mx_head; the owner of _mx_tail asks for no mutex, so that no
\* two threads wait for each other.
C34_LockOrder ==
  [][\A t \in Threads :
       /\ (tmx["tail"] /= t /\ tmx'["tail"] = t) =>
            IF top[t] = "push" THEN TsHolds(t) = {}
            ELSE /\ top[t] \in {"empty", "try_pop", "wait_and_pop"}
                 /\ TsHolds(t) = {"head"}
       /\ "head" \in TsWants(t) => TsHolds(t) = {}
       /\ top[t] = "push" => tmx["head"] /= t /\ "head" \notin TsWants(t)
       /\ tmx["tail"] = t => TsWants(t) = {}
       /\ \A u \in Threads : ~(TsWaitsFor(t, u) /\ TsWaitsFor(u, t))
       /\ \A u, w \in Threads :
            ~(TsWaitsFor(t, u) /\ TsWaitsFor(u, w) /\ TsWaitsFor(w, t))
  ]_vars

\* C34 witness: a chain of waiting threads as long as it gets: one asks for
\* _mx_head, whose owner asks for _mx_tail, whose owner is inside push
C34_Witness ==
  \E t, u, w \in Threads :
    /\ TsWaitsFor(t, u) /\ TsWaitsFor(u, w)
    /\ TsWants(t) = {"head"} /\ TsWants(u) = {"tail"}
    /\ top[w] = "push" /\ TsWants(w) = {}
    /\ top[u] = "empty"

\* the nodes of the list from node n on, following _next, at most k of them
RECURSIVE TsChain(_, _)
TsChain(n, k) ==
  IF n = NoNode \/ n \notin DOMAIN tnodes \/ k = 0 THEN <<>>
  ELSE <<n>> \o TsChain(tnodes[n].next, k - 1)

\* the list reachable from _head
TsList == TsChain(thead, Len(tnodes))

\* no push is inside its lock block and no pop inside its protected section
TsQuiescent ==
  \A t \in Threads :
    /\ top[t] = "push" => tmx["tail"] /= t
    /\ tpos[t] \notin {"pop_head", "pop_unlock"}

\* C35: the dummy-node invariant of QueueTSFG_.  With no push and no pop
\* inside its critical section, the list from _head ends at the node _tail
\* points to, that node has no data and no successor, every node before it
\* holds one pushed value (the values pushed and not yet popped, in order),
\* and the queue holds no value exactly when _head is _tail.
C35_DummyNode ==
  TsQuiescent =>
    /\ TsList /= <<>>
    /\ TsList[Len(TsList)] = ttail
    /\ tnodes[ttail] = NewNode
    /\ \A k \in 1..(Len(TsList) - 1) :
         /\ Len(tnodes[TsList[k]].data) = 1
         /\ tnodes[TsList[k]].data = <<tpushed[Len(tpopped) + k]>>
         /\ tnodes[TsList[k]].next = TsList[k + 1]
    /\ Len(TsList) - 1 = Len(tpushed) - Len(tpopped)
    /\ (Len(tpushed) = Len(tpopped)) <=> (thead = ttail)

\* C35 witness: at rest after pushes and a pop, two values before the dummy
\* node and _head no longer the node of the constructor
C35_Witness ==
  /\ TsQuiescent
  /\ \A t \in Threads : tpos[t] = "idle"
  /\ Len(TsList) = 3 /\ Len(tpopped) = 1
  /\ thead /= 1 /\ thead /= ttail

====
